---- MODULE Spec2Model ----
(***************************************************************************)
(* NexusFlow Gatekeeper - the Healer Protocol of the client state store.   *)
(*                                                                         *)
(* Every browser context (tab) holds one zustand store (nodes, pending      *)
(* ledger, applied-id set, metrics, chaos configuration), one transport     *)
(* BroadcastChannel object used for sending and for the store's onmessage   *)
(* listener, and a second BroadcastChannel object of the same name owned    *)
(* by the App component.  A message posted on a BroadcastChannel object    *)
(* queues one message event for every OTHER object of that name, in every   *)
(* open context; a context dispatches its queued events in order.           *)
(*                                                                         *)
(* The relay (WebSocket server) holds one MessageStore (pending and         *)
(* delivered maps), one rate limit tracker per client identity, and runs    *)
(* the message:send and message:ack handlers and a retry loop.              *)
(***************************************************************************)
EXTENDS Integers, Naturals, Sequences, FiniteSets, TLC

\* ------------------------------------------------------------------------
\* Program constants
\* ------------------------------------------------------------------------
ACK_TIMEOUT_MS == 300
MAX_RETRY_ATTEMPTS == 5
CLEANUP_DELAY_MS == 5000
\* parseInt(id.substring(0, 8), 16) * 4294966.296, in whole milliseconds
UuidUnitMs == 4294966
\* the relay: its ACK_TIMEOUT_MS and CLEANUP_DELAY_MS equal the client's
RATE_LIMIT_MSGS_PER_SEC == 100
RateWindowMs == 1000
\* sendAck: maxAttempts of an ACKNOWLEDGEMENT envelope
AckMaxAttempts == 1

\* ------------------------------------------------------------------------
\* Bounds of the model
\* ------------------------------------------------------------------------
\* number of setNodeState calls over a run (envelope ids are 1..MaxMsgs)
MaxMsgs == 2
\* the clock stops after this many retry intervals
MaxIntervals == 6

\* posts to a context the lossy transport may lose over a run
MaxDrops == 1
\* retry intervals over a run that may pass with message events still queued
MaxLag == 1
\* setNodeState calls over a run of three tabs, under chaos or beside other scripts
MaxFewMsgs == 1
\* envelopes of other origin posted on the channel over a run
MaxExternal == 1

\* jumps of the clock once the traffic has stopped, per size of jump
MaxJumps == 2

\* envelope ids the relay sees (one per client identity)
MaxRelayIds == 2
\* message:send events the relay takes over a run beside its retry loop
MaxSends == 3
\* retry intervals of the relay over a run
MaxRelayIntervals == 6
\* jumps of the relay's clock over a run of calls on the store or of a burst
MaxRelayJumps == 2
\* add calls over a run of calls on the store
MaxAdds == 2
\* message:send events of a second identity beside a burst of the first
MaxOtherSends == 1
\* incrementAttempts calls on one entry over a run of calls on the store
MaxStoreAttempts == 2

\* the largest counter of a vector clock
MaxCounter == 2

\* runs of onRehydrateStorage in a context after the one at page load
MaxRehydrations == 2
\* sends through the origin's transport over a run
MaxRouted == 3
\* initWebSocket calls suspended at the dynamic import at one time
MaxAwaiting == 1

MaxNow == MaxIntervals * ACK_TIMEOUT_MS

\* ------------------------------------------------------------------------
\* Domains
\* ------------------------------------------------------------------------
\* getClientId(): one identifier per browser context
Clients == {"c1", "c2", "c3"}
\* the nodes of initialNodes the model follows
NodeIds == {"robot-alpha", "robot-beta"}
NodeStates == {"normal", "warning", "emergency"}
Ids == 1..MaxMsgs
\* the control buttons of App: changeNodeState('robot-alpha', 'emergency' | 'normal')
ButtonNode == "robot-alpha"
ButtonStates == {"emergency", "normal"}
\* sendAck gives each ACK a fresh uuid; no ledger ever holds it
AckId == 0
\* Math.random() in percent, and the packet loss rates the panel can set
Rolls == {0, 50, 99}
LossRates == {0, 50, 100}
Latencies == {0, 300}
\* Date.now() when the page loads, in units of UuidUnitMs since 1970
LoadedAtUnits == 417500
\* the first eight hex digits of a uuid: random, here at most 7fffffff
TypicalPrefix == 2147483647

\* socket.handshake.query.clientId of the connected sockets
RelayClients == {"c1", "c2"}
RelayKeys == 1..MaxRelayIds
\* a string by its shape under uuidRegex: the lengths of its groups between
\* dashes, whether every other character is a hex digit, and which uuid it is
UuidGroups == <<8, 4, 4, 4, 12>>
Uuid(k) == [groups |-> UuidGroups, hex |-> TRUE, key |-> k]
EmptyString == [groups |-> << >>, hex |-> TRUE, key |-> 0]
Undefined == [undefined |-> TRUE]
\* the envelope of key k is created by one client
Owner(k) == IF k = 1 THEN "c1" ELSE "c2"
\* no handler has run and no method of the store was called
NoOut == [op |-> "none"]

VARIABLES
  open,               \* contexts whose page is loaded
  nodes,              \* store.nodes, per context: node id -> state
  pendingMessages,    \* store.pendingMessages, per context: id -> entry
  appliedMessageIds,  \* store.appliedMessageIds, per context
  metrics,            \* store.metrics, per context
  chaosConfig,        \* store.chaosConfig, per context
  channel,            \* per context, the queued message events of its listeners
  timers,             \* setTimeout(() => sendViaTransport(message), latency)
  now,                \* Date.now()
  lag,                \* retry intervals that passed with message events still queued
  nextId,             \* the next uuid generateMessageId hands to setNodeState
  drops,              \* message events the transport has lost so far
  injected,           \* envelopes other scripts have posted on the channel so far
  posted,             \* history: envelopes posted by the latest step
  rx,                 \* history: the message event the latest step dispatched
  sent,               \* history: the envelope each setNodeState call created
  txCount,            \* history: sendViaTransport calls per envelope id
  ackedBy,            \* history: senders of the ACKs that reached the origin's entry
  gaveUp,             \* history: ids closed by the retry cap
  dueTicks,           \* history: retry ticks that found the entry of an id due
  lastApplied,        \* history: per context and node, the id applied last
  uuidPrefix,         \* per envelope id, the first eight hex digits of the uuid
  cleanedAt,          \* history: per context, Date.now() of its latest cleanup tick
  relayNow,           \* Date.now() of the relay
  relayTicked,        \* the relay's retry loop has run in the current interval
  relayPending,       \* messageStore.pendingMessages: id -> entry
  relayDelivered,     \* messageStore.deliveredMessages: id -> entry
  rateLimitTracker,   \* rateLimitTracker: clientId -> {count, resetTime}
  relayOut,           \* the events the latest handler emitted, or what the
                      \* latest call on the store returned
  relaySends,         \* message:send events taken so far
  relayJumps,         \* jumps of the relay's clock so far
  lastTx,             \* history: per key, when the relay last emitted message:receive
  rebroadcasts,       \* history: per key, message:receive emissions of the retry loop
  admitted,           \* history: per identity, admissions of the last second by time
  clients,            \* the clients map: the sockets the connection handler has taken
  vc,                 \* three vector clocks and what the latest call on them returned
  _retryIntervalId,   \* per context: the id setInterval returned for the retry loop, 0 for null
  _cleanupIntervalId, \* per context: the id setInterval returned for the cleanup loop
  intervals,          \* per context: the repeating timers of the window that are active
  nextHandle,         \* per context: the id the next setInterval call returns
  tornDown,           \* contexts whose window has dispatched beforeunload
  _socket,            \* transport of the origin: 0 for null, 1 for the socket.io client
  _socketConnected,   \* transport of the origin: _socketConnected
  _transportType,     \* transport of the origin: _transportType
  awaiting,           \* initWebSocket calls suspended at await import('socket.io-client')
  routes              \* history: where each send of the origin's transport went
                      \* and what each initWebSocket call returned

vars == <<open, nodes, pendingMessages, appliedMessageIds, metrics, chaosConfig,
          channel, timers, now, lag, nextId, drops, injected, posted, rx, sent, txCount,
          ackedBy, gaveUp, dueTicks, lastApplied, uuidPrefix, cleanedAt,
          relayNow, relayTicked, relayPending, relayDelivered, rateLimitTracker,
          relayOut, relaySends, relayJumps, lastTx, rebroadcasts, admitted, clients, vc,
          _retryIntervalId, _cleanupIntervalId, intervals, nextHandle, tornDown,
          _socket, _socketConnected, _transportType, awaiting, routes>>

\* the relay process
relay == <<relayNow, relayTicked, relayPending, relayDelivered, rateLimitTracker,
           relayOut, relaySends, relayJumps, lastTx, rebroadcasts, admitted, clients>>

\* what no action of a browser context writes, the cleanup loop apart
beyond == <<uuidPrefix, cleanedAt, relay, vc,
            _retryIntervalId, _cleanupIntervalId, intervals, nextHandle, tornDown,
            _socket, _socketConnected, _transportType, awaiting, routes>>

store == <<nodes, pendingMessages, appliedMessageIds, metrics, chaosConfig>>
\* the browser contexts
browser == <<open, store, channel, timers, now, lag, nextId, drops, injected, posted, rx,
             sent, txCount, ackedBy, gaveUp, dueTicks, lastApplied, uuidPrefix, cleanedAt,
             vc, _retryIntervalId, _cleanupIntervalId, intervals, nextHandle, tornDown,
             _socket, _socketConnected, _transportType, awaiting, routes>>
history == <<sent, txCount, ackedBy, gaveUp, dueTicks, lastApplied>>

\* ------------------------------------------------------------------------
\* Initial state
\* ------------------------------------------------------------------------
initialNodes == [n \in NodeIds |-> "normal"]

\* no message event was dispatched by the latest step
NoRx == [to |-> "none"]

initialMetrics ==
  [messagesSent |-> 0, messagesReceived |-> 0, acksReceived |-> 0,
   retries |-> 0, lastLatency |-> 0]

initialChaos == [packetLossRate |-> 0, minLatency |-> 0, maxLatency |-> 0]

\* the relay starts with empty maps; its intervals first fire one period later
InitRelay ==
  /\ relayNow = 0
  /\ relayTicked = TRUE
  /\ relayPending = << >>
  /\ relayDelivered = << >>
  /\ rateLimitTracker = << >>
  /\ relayOut = NoOut
  /\ relaySends = 0
  /\ relayJumps = 0
  /\ lastTx = [k \in RelayKeys |-> -1]
  /\ rebroadcasts = [k \in RelayKeys |-> 0]
  /\ admitted = [c \in RelayClients |-> << >>]

InitStore ==
  /\ nodes = [c \in Clients |-> initialNodes]
  /\ pendingMessages = [c \in Clients |-> << >>]
  /\ appliedMessageIds = [c \in Clients |-> {}]
  /\ metrics = [c \in Clients |-> initialMetrics]
  /\ chaosConfig = [c \in Clients |-> initialChaos]
  /\ channel = [c \in Clients |-> << >>]
  /\ timers = {}
  /\ now = 0
  /\ lag = 0
  /\ nextId = 1
  /\ drops = 0
  /\ injected = 0
  /\ posted = << >>
  /\ rx = NoRx
  /\ sent = << >>
  /\ txCount = [i \in Ids |-> 0]
  /\ ackedBy = [i \in Ids |-> {}]
  /\ gaveUp = {}
  /\ dueTicks = [i \in Ids |-> 0]
  /\ lastApplied = [c \in Clients |-> [n \in NodeIds |-> 0]]
  /\ cleanedAt = [c \in Clients |-> -1]
  /\ InitRelay
  \* onRehydrateStorage has run once in every loaded context
  /\ _retryIntervalId = [c \in Clients |-> IF c \in open THEN 1 ELSE 0]
  /\ _cleanupIntervalId = [c \in Clients |-> IF c \in open THEN 2 ELSE 0]
  /\ intervals = [c \in Clients |->
                    IF c \in open
                    THEN {[id |-> 1, fn |-> "retryPendingMessages"],
                          [id |-> 2, fn |-> "cleanupAcknowledgedMessages"]}
                    ELSE {}]
  /\ nextHandle = [c \in Clients |-> IF c \in open THEN 3 ELSE 1]
  /\ tornDown = {}
  \* the transport module as loaded
  /\ _socket = 0
  /\ _socketConnected = FALSE
  /\ _transportType = "broadcastchannel"
  /\ awaiting = 0
  /\ routes = << >>

\* generateMessageId() draws every uuid at random
InitUuids ==
  \* a pseudo-timestamp long before the page load, about one unit before it,
  \* at it, or far after it
  \E drawn \in [1..MaxFewMsgs -> {0, LoadedAtUnits - 1, LoadedAtUnits, TypicalPrefix}] :
    uuidPrefix = [i \in 1..(MaxMsgs + 1) |->
                    IF i <= MaxFewMsgs THEN drawn[i] ELSE TypicalPrefix]

\* the uuids all have a prefix of the usual size
TypicalUuids == uuidPrefix = [i \in 1..(MaxMsgs + 1) |-> TypicalPrefix]

\* ------------------------------------------------------------------------
\* Transport
\* ------------------------------------------------------------------------
\* the message events one postMessage on the transport's object of context c
\* queues in context d: one for every other BroadcastChannel object named
\* 'nexusflow-sync', oldest object (the store's) first
MessageEvents(c, d, m) ==
  IF d \notin open THEN << >>
  ELSE IF d = c THEN <<[msg |-> m, via |-> "app"]>>
  ELSE <<[msg |-> m, via |-> "store"], [msg |-> m, via |-> "app"]>>

\* channel.postMessage(message) on the transport's object of context c
sendViaBroadcastChannel(ch, c, m) ==
  [d \in Clients |-> ch[d] \o MessageEvents(c, d, m)]

sendViaTransport(ch, c, m) == sendViaBroadcastChannel(ch, c, m)

RECURSIVE PostAll(_, _, _)
\* the envelopes of ms posted one after the other by context c
PostAll(ch, c, ms) ==
  IF ms = << >> THEN ch
  ELSE PostAll(sendViaBroadcastChannel(ch, c, Head(ms)), c, Tail(ms))

sendAck(messageId, senderId) ==
  [id |-> AckId, type |-> "ACKNOWLEDGEMENT", payload |-> [messageId |-> messageId],
   senderId |-> senderId, attempts |-> 0, maxAttempts |-> 1]

\* ------------------------------------------------------------------------
\* setNodeState
\* ------------------------------------------------------------------------
\* Math.random() < chaosConfig.packetLossRate, guarded by packetLossRate > 0
ChaosDrops(c, roll) ==
  chaosConfig[c].packetLossRate > 0 /\ roll < chaosConfig[c].packetLossRate

LatencyConfigured(c) ==
  chaosConfig[c].minLatency > 0 \/ chaosConfig[c].maxLatency > 0

\* minLatency + Math.random() * (maxLatency - minLatency)
ChaosLatency(c, roll) ==
  chaosConfig[c].minLatency +
    (roll * (chaosConfig[c].maxLatency - chaosConfig[c].minLatency)) \div 100

NewMessage(c, type, payload) ==
  [id |-> nextId, type |-> type, payload |-> payload,
   senderId |-> c, attempts |-> 0, maxAttempts |-> MAX_RETRY_ATTEMPTS]

\* the transmission part of sendReliableMessageInternal
sendReliableMessageInternal(c, m, roll, roll2) ==
  IF ChaosDrops(c, roll)
  THEN /\ UNCHANGED <<channel, timers, txCount>>
       /\ posted' = << >> /\ rx' = NoRx
  ELSE IF LatencyConfigured(c)
  THEN /\ timers' = timers \cup
                      {[msg |-> m, from |-> c, fireAt |-> now + ChaosLatency(c, roll2)]}
       /\ UNCHANGED <<channel, txCount>>
       /\ posted' = << >> /\ rx' = NoRx
  ELSE /\ channel' = sendViaTransport(channel, c, m)
       /\ txCount' = [txCount EXCEPT ![m.id] = @ + 1]
       /\ posted' = <<m>> /\ rx' = NoRx
       /\ UNCHANGED timers

\* setNodeState leaving the local node to the peers' echo
setNodeStateNodes_Stale(c, nodeId, state) ==
  nodes[c]

setNodeStateNodes(c, nodeId, state) ==
  [n \in NodeIds |-> IF n = nodeId THEN state ELSE nodes[c][n]]

\* setNodeState counting only the envelopes the chaos roll let through
setNodeState_CountsTransmitted(c, nodeId, state, roll, roll2) ==
  LET m == NewMessage(c, "NODE_STATE_CHANGE", [nodeId |-> nodeId, state |-> state])
      entry == [message |-> m, acknowledged |-> FALSE, lastAttempt |-> now]
  IN /\ c \in open
     /\ nextId <= MaxMsgs
     /\ sendReliableMessageInternal(c, m, roll, roll2)
     /\ pendingMessages' =
          [pendingMessages EXCEPT ![c] = (nextId :> entry) @@ @]
     /\ nodes' = [nodes EXCEPT ![c] = setNodeStateNodes(c, nodeId, state)]
     /\ metrics' = [metrics EXCEPT ![c].messagesSent =
                      IF ChaosDrops(c, roll) THEN @ ELSE @ + 1]
     /\ nextId' = nextId + 1
     /\ sent' = Append(sent, m)
     /\ UNCHANGED <<beyond, open, appliedMessageIds, chaosConfig, now, lag, drops, injected,
                    ackedBy, gaveUp, dueTicks, lastApplied>>

setNodeState(c, nodeId, state, roll, roll2) ==
  LET m == NewMessage(c, "NODE_STATE_CHANGE", [nodeId |-> nodeId, state |-> state])
      entry == [message |-> m, acknowledged |-> FALSE, lastAttempt |-> now]
  IN /\ c \in open
     /\ nextId <= MaxMsgs
     /\ sendReliableMessageInternal(c, m, roll, roll2)
     /\ pendingMessages' =
          [pendingMessages EXCEPT ![c] = (nextId :> entry) @@ @]
     /\ nodes' = [nodes EXCEPT ![c] = setNodeStateNodes(c, nodeId, state)]
     /\ metrics' = [metrics EXCEPT ![c].messagesSent = @ + 1]
     /\ nextId' = nextId + 1
     /\ sent' = Append(sent, m)
     /\ UNCHANGED <<beyond, open, appliedMessageIds, chaosConfig, now, lag, drops, injected,
                    ackedBy, gaveUp, dueTicks, lastApplied>>

\* the timer of the latency chaos fires
DelayedSend(t) ==
  /\ t \in timers
  /\ now >= t.fireAt
  /\ timers' = timers \ {t}
  /\ channel' = sendViaTransport(channel, t.from, t.msg)
  /\ txCount' = [txCount EXCEPT ![t.msg.id] = @ + 1]
  /\ posted' = <<t.msg>>
  /\ rx' = NoRx
  /\ UNCHANGED <<beyond, open, store, now, lag, nextId, drops, injected, sent, ackedBy,
                 gaveUp, dueTicks, lastApplied>>

\* ------------------------------------------------------------------------
\* handleReliableMessage
\* ------------------------------------------------------------------------
\* what one call leaves in the store of context c, what it returns and which
\* ACK envelopes it sends itself
Unhandled(c, ret, acks) ==
  [ret |-> ret, nodes |-> nodes[c], applied |-> appliedMessageIds[c],
   pending |-> pendingMessages[c], metrics |-> metrics[c], acks |-> acks]

\* set(s => ({ metrics: { ...s.metrics, messagesReceived: ... + 1 } }))
Received(c) == [metrics[c] EXCEPT !.messagesReceived = @ + 1]

\* the NODE_STATE_CHANGE case recording the id without the nodes.map update
ApplyNodeStateChange_KeepsNodes(c, m) ==
  [ret |-> TRUE,
   nodes |-> nodes[c],
   applied |-> appliedMessageIds[c] \cup {m.id},
   pending |-> pendingMessages[c],
   metrics |-> Received(c),
   acks |-> << >>]

ApplyNodeStateChange(c, m) ==
  [ret |-> TRUE,
   nodes |-> [n \in NodeIds |->
                IF n = m.payload.nodeId THEN m.payload.state ELSE nodes[c][n]],
   applied |-> appliedMessageIds[c] \cup {m.id},
   pending |-> pendingMessages[c],
   metrics |-> Received(c),
   acks |-> << >>]

ApplyStateSync(c, m) ==
  [ret |-> TRUE,
   nodes |-> m.payload.nodes,
   applied |-> appliedMessageIds[c] \cup {m.id},
   pending |-> pendingMessages[c],
   metrics |-> Received(c),
   acks |-> << >>]

ApplyAcknowledgement(c, m) ==
  LET originalId == m.payload.messageId
  IN IF originalId \in DOMAIN pendingMessages[c]
     THEN [ret |-> TRUE,
           nodes |-> nodes[c],
           applied |-> appliedMessageIds[c],
           pending |-> [pendingMessages[c] EXCEPT ![originalId].acknowledged = TRUE],
           metrics |-> [Received(c) EXCEPT
                          !.acksReceived = @ + 1,
                          !.lastLatency = now - pendingMessages[c][originalId].lastAttempt],
           acks |-> << >>]
     ELSE [Unhandled(c, TRUE, << >>) EXCEPT !.metrics = Received(c)]

\* handleReliableMessage without the senderId === clientId return
handleReliableMessage_NoSelfCheck(c, m) ==
  IF m.id \in appliedMessageIds[c]
  THEN Unhandled(c, TRUE, IF m.senderId # c THEN <<sendAck(m.id, c)>> ELSE << >>)
  ELSE CASE m.type = "NODE_STATE_CHANGE" -> ApplyNodeStateChange(c, m)
         [] m.type = "STATE_SYNC" -> ApplyStateSync(c, m)
         [] m.type = "ACKNOWLEDGEMENT" -> ApplyAcknowledgement(c, m)
         [] OTHER -> [Unhandled(c, FALSE, << >>) EXCEPT !.metrics = Received(c)]

\* handleReliableMessage without the appliedMessageIds lookup
handleReliableMessage_NoDedup(c, m) ==
  IF m.senderId = c
  THEN Unhandled(c, FALSE, << >>)
  ELSE CASE m.type = "NODE_STATE_CHANGE" -> ApplyNodeStateChange(c, m)
         [] m.type = "STATE_SYNC" -> ApplyStateSync(c, m)
         [] m.type = "ACKNOWLEDGEMENT" -> ApplyAcknowledgement(c, m)
         [] OTHER -> [Unhandled(c, FALSE, << >>) EXCEPT !.metrics = Received(c)]

\* handleReliableMessage with the default case returning true
handleReliableMessage_UnknownHandled(c, m) ==
  IF m.id \in appliedMessageIds[c]
  THEN Unhandled(c, TRUE, IF m.senderId # c THEN <<sendAck(m.id, c)>> ELSE << >>)
  ELSE IF m.senderId = c
  THEN Unhandled(c, FALSE, << >>)
  ELSE CASE m.type = "NODE_STATE_CHANGE" -> ApplyNodeStateChange(c, m)
         [] m.type = "STATE_SYNC" -> ApplyStateSync(c, m)
         [] m.type = "ACKNOWLEDGEMENT" -> ApplyAcknowledgement(c, m)
         [] OTHER -> [Unhandled(c, TRUE, << >>) EXCEPT !.metrics = Received(c)]

handleReliableMessage(c, m) ==
  IF m.id \in appliedMessageIds[c]
  THEN Unhandled(c, TRUE, IF m.senderId # c THEN <<sendAck(m.id, c)>> ELSE << >>)
  ELSE IF m.senderId = c
  THEN Unhandled(c, FALSE, << >>)
  ELSE CASE m.type = "NODE_STATE_CHANGE" -> ApplyNodeStateChange(c, m)
         [] m.type = "STATE_SYNC" -> ApplyStateSync(c, m)
         [] m.type = "ACKNOWLEDGEMENT" -> ApplyAcknowledgement(c, m)
         [] OTHER -> [Unhandled(c, FALSE, << >>) EXCEPT !.metrics = Received(c)]

\* ------------------------------------------------------------------------
\* The message listeners (store onmessage, App handleMessage)
\* ------------------------------------------------------------------------
\* handled && message.type !== 'ACKNOWLEDGEMENT' => acknowledgeMessage(message.id)
\* the listener acknowledging every handled envelope, ACKs included
ListenerAcks_AcksToo(c, m, handled) ==
  IF handled THEN <<sendAck(m.id, c)>> ELSE << >>

ListenerAcks(c, m, handled) ==
  IF handled /\ m.type # "ACKNOWLEDGEMENT" THEN <<sendAck(m.id, c)>> ELSE << >>

\* a state change or a sync the call applied
Applies(c, m) ==
  /\ m.id \notin appliedMessageIds[c]
  /\ m.senderId # c
  /\ m.type \in {"NODE_STATE_CHANGE", "STATE_SYNC"}

\* an ACK the call matched with a pending entry
Matches(c, m) ==
  /\ m.id \notin appliedMessageIds[c]
  /\ m.senderId # c
  /\ m.type = "ACKNOWLEDGEMENT"
  /\ m.payload.messageId \in DOMAIN pendingMessages[c]

Listener(c, via, m, rest) ==
  LET r == handleReliableMessage(c, m)
      acks == r.acks \o ListenerAcks(c, m, r.ret)
  IN /\ nodes' = [nodes EXCEPT ![c] = r.nodes]
     /\ appliedMessageIds' = [appliedMessageIds EXCEPT ![c] = r.applied]
     /\ pendingMessages' = [pendingMessages EXCEPT ![c] = r.pending]
     /\ metrics' = [metrics EXCEPT ![c] = r.metrics]
     /\ channel' = PostAll(rest, c, acks)
     /\ posted' = acks
     /\ rx' = [to |-> c, via |-> via, msg |-> m, known |-> m.id \in appliedMessageIds[c],
               ret |-> r.ret]
     /\ ackedBy' = IF Matches(c, m) /\ m.payload.messageId \in Ids
                   THEN [ackedBy EXCEPT ![m.payload.messageId] = @ \cup {m.senderId}]
                   ELSE ackedBy
     /\ lastApplied' =
          IF Applies(c, m)
          THEN [lastApplied EXCEPT ![c] =
                  [n \in NodeIds |->
                     IF m.type = "STATE_SYNC" \/ n = m.payload.nodeId
                     THEN m.id ELSE @[n]]]
          ELSE lastApplied
     /\ UNCHANGED <<beyond, open, chaosConfig, timers, now, lag, nextId, drops, injected,
                    sent, txCount, gaveUp, dueTicks>>

\* the oldest queued message event of context c reaches its listener
onmessage(c) ==
  /\ c \in open
  /\ channel[c] # << >>
  /\ Listener(c, Head(channel[c]).via, Head(channel[c]).msg,
              [channel EXCEPT ![c] = Tail(@)])

\* ------------------------------------------------------------------------
\* markMessageApplied
\* ------------------------------------------------------------------------
\* appliedMessageIds: new Set([...store.appliedMessageIds, messageId])
markMessageApplied(c, messageId) ==
  /\ c \in open
  /\ messageId \notin appliedMessageIds[c]
  /\ appliedMessageIds' = [appliedMessageIds EXCEPT ![c] = @ \cup {messageId}]
  /\ posted' = << >> /\ rx' = NoRx
  /\ UNCHANGED <<beyond, open, nodes, pendingMessages, metrics, chaosConfig, channel, timers,
                 now, lag, nextId, drops, injected, history>>

\* ------------------------------------------------------------------------
\* cleanupAcknowledgedMessages
\* ------------------------------------------------------------------------
\* the grace window with <= in place of <
KeepsPending_PastWindow(c, id) ==
  \/ ~pendingMessages[c][id].acknowledged
  \/ now - pendingMessages[c][id].lastAttempt <= CLEANUP_DELAY_MS

\* !pending.acknowledged || now - pending.lastAttempt < CLEANUP_DELAY_MS
KeepsPending(c, id) ==
  \/ ~pendingMessages[c][id].acknowledged
  \/ now - pendingMessages[c][id].lastAttempt < CLEANUP_DELAY_MS

\* a difference of pseudo-timestamp units, cut to the range in which the
\* comparison with the window is not yet decided
CutUnits(d) == IF d > 2 THEN 2 ELSE IF d < -2 THEN -2 ELSE d

\* now - timestamp < CLEANUP_DELAY_MS * 1000, where
\* timestamp = parseInt(id.substring(0, 8), 16) * 4294966.296
\* and Date.now() = LoadedAtUnits * UuidUnitMs + now
KeepsApplied(id) ==
  CutUnits(LoadedAtUnits - uuidPrefix[id]) * UuidUnitMs + now < CLEANUP_DELAY_MS * 1000

cleanupAcknowledgedMessages(c) ==
  LET kept == {id \in DOMAIN pendingMessages[c] : KeepsPending(c, id)}
  IN /\ c \in open
     /\ pendingMessages' =
          [pendingMessages EXCEPT ![c] = [id \in kept |-> pendingMessages[c][id]]]
     /\ appliedMessageIds' =
          [appliedMessageIds EXCEPT ![c] = {id \in @ : KeepsApplied(id)}]
     /\ cleanedAt' = [cleanedAt EXCEPT ![c] = now]
     /\ posted' = << >> /\ rx' = NoRx
     /\ UNCHANGED <<uuidPrefix, relay, vc, open, nodes, metrics, chaosConfig, channel, timers, now,
                    lag, nextId, drops, injected, history,
                    _retryIntervalId, _cleanupIntervalId, intervals, nextHandle, tornDown,
                    _socket, _socketConnected, _transportType, awaiting, routes>>

\* ------------------------------------------------------------------------
\* retryPendingMessages
\* ------------------------------------------------------------------------
RECURSIVE SortedSeq(_)
\* the ids of S in the iteration order of the Map (insertion order)
SortedSeq(S) ==
  IF S = {} THEN << >>
  ELSE LET least == CHOOSE x \in S : \A y \in S : x <= y
       IN <<least>> \o SortedSeq(S \ {least})

\* the tick looking at every timed-out entry, acknowledged or not
Due_AckedToo(c, id) ==
  now - pendingMessages[c][id].lastAttempt >= ACK_TIMEOUT_MS

\* the entry is looked at by this tick: unacknowledged and timed out
Due(c, id) ==
  /\ ~pendingMessages[c][id].acknowledged
  /\ now - pendingMessages[c][id].lastAttempt >= ACK_TIMEOUT_MS

\* the attempt check with > in place of >=
GivesUp_Late(c, id) ==
  Due(c, id) /\ pendingMessages[c][id].message.attempts > MAX_RETRY_ATTEMPTS

GivesUp(c, id) ==
  Due(c, id) /\ pendingMessages[c][id].message.attempts >= MAX_RETRY_ATTEMPTS

RetryDropped(c, id, roll) ==
  Due(c, id) /\ ~GivesUp(c, id) /\ ChaosDrops(c, roll)

Retransmits(c, id, roll) ==
  Due(c, id) /\ ~GivesUp(c, id) /\ ~ChaosDrops(c, roll)

retryMessage(m) == [m EXCEPT !.attempts = @ + 1]

\* the forEach body with a dropped retry counted as an attempt
RetryEntry_CountsDrop(c, id, roll) ==
  LET pending == pendingMessages[c][id]
  IN IF GivesUp(c, id) THEN [pending EXCEPT !.acknowledged = TRUE]
     ELSE IF RetryDropped(c, id, roll)
     THEN [pending EXCEPT !.message = retryMessage(pending.message),
                          !.lastAttempt = now]
     ELSE IF Retransmits(c, id, roll)
     THEN [pending EXCEPT !.message = retryMessage(pending.message),
                          !.lastAttempt = now]
     ELSE pending

\* the entry of id after the forEach body ran on it
RetryEntry(c, id, roll) ==
  LET pending == pendingMessages[c][id]
  IN IF GivesUp(c, id) THEN [pending EXCEPT !.acknowledged = TRUE]
     ELSE IF RetryDropped(c, id, roll) THEN [pending EXCEPT !.lastAttempt = now]
     ELSE IF Retransmits(c, id, roll)
     THEN [pending EXCEPT !.message = retryMessage(pending.message),
                          !.lastAttempt = now]
     ELSE pending

retryPendingMessages(c, rolls) ==
  LET ids == DOMAIN pendingMessages[c]
      resent == SortedSeq({id \in ids : Retransmits(c, id, rolls[id])})
      msgs == [k \in 1..Len(resent) |-> retryMessage(pendingMessages[c][resent[k]].message)]
  IN /\ c \in open
     /\ \E id \in ids : Due(c, id)
     /\ pendingMessages' =
          [pendingMessages EXCEPT ![c] = [id \in ids |-> RetryEntry(c, id, rolls[id])]]
     /\ metrics' = [metrics EXCEPT ![c].retries = @ + Len(resent)]
     /\ channel' = PostAll(channel, c, msgs)
     /\ posted' = msgs
     /\ rx' = NoRx
     /\ txCount' = [i \in Ids |->
                      IF i \in ids /\ Retransmits(c, i, rolls[i])
                      THEN txCount[i] + 1 ELSE txCount[i]]
     /\ gaveUp' = gaveUp \cup {id \in ids : GivesUp(c, id)}
     /\ dueTicks' = [i \in Ids |->
                       IF i \in ids /\ Due(c, i) THEN dueTicks[i] + 1 ELSE dueTicks[i]]
     /\ UNCHANGED <<beyond, open, nodes, appliedMessageIds, chaosConfig, timers, now, lag,
                    nextId, drops, injected, sent, ackedBy, lastApplied>>

\* ------------------------------------------------------------------------
\* setChaosConfig, the clock, the lossy transport
\* ------------------------------------------------------------------------
ChaosFields == {"packetLossRate", "minLatency", "maxLatency"}

\* the partial configurations the sliders of the dashboard pass
ChaosUpdates ==
  {("packetLossRate" :> v) : v \in LossRates}
    \cup {("minLatency" :> v) : v \in Latencies}
    \cup {("maxLatency" :> v) : v \in Latencies}

setChaosConfig(c, config) ==
  /\ c \in open
  /\ chaosConfig' =
       [chaosConfig EXCEPT ![c] =
          [f \in ChaosFields |-> IF f \in DOMAIN config THEN config[f] ELSE @[f]]]
  /\ chaosConfig'[c] # chaosConfig[c]
  /\ posted' = << >> /\ rx' = NoRx
  /\ UNCHANGED <<beyond, open, nodes, pendingMessages, appliedMessageIds, metrics, channel,
                 timers, now, lag, nextId, drops, injected, history>>

\* something in some context waits for time to pass
Waiting ==
  \/ timers # {}
  \/ \E c \in open : \E id \in DOMAIN pendingMessages[c] :
        ~pendingMessages[c][id].acknowledged

Idle == \A c \in Clients : channel[c] = << >>

\* a timer whose delay has run out fires before the clock moves on
TimersFired == \A t \in timers : t.fireAt > now

\* one retry interval passes; the message events queued before it have been
\* dispatched or lost by then
Advance ==
  /\ now < MaxNow
  /\ Waiting
  /\ Idle
  /\ TimersFired
  /\ lag' = lag
  /\ now' = now + ACK_TIMEOUT_MS
  /\ posted' = << >> /\ rx' = NoRx
  /\ UNCHANGED <<beyond, open, store, channel, timers, nextId, drops, injected, history>>

\* the traffic has stopped and every entry is acknowledged: the clock moves
\* on by a cleanup interval or by the retention window of the applied ids
AdvanceQuiet(jump) ==
  /\ now < MaxJumps * jump
  /\ ~Waiting
  /\ Idle
  /\ timers = {}
  /\ now' = now + jump
  /\ posted' = << >> /\ rx' = NoRx
  /\ UNCHANGED <<beyond, open, store, channel, timers, lag, nextId, drops, injected,
                 history>>

\* one retry interval passes with message events still queued
AdvanceBusy ==
  /\ now < MaxNow
  /\ Waiting
  /\ ~Idle
  /\ TimersFired
  /\ lag < MaxLag
  /\ lag' = lag + 1
  /\ now' = now + ACK_TIMEOUT_MS
  /\ posted' = << >> /\ rx' = NoRx
  /\ UNCHANGED <<beyond, open, store, channel, timers, nextId, drops, injected, history>>

\* the transport loses the oldest message event queued for context c
SamePost(q) ==
  /\ Len(q) >= 2
  /\ q[1].via = "store"
  /\ q[2].via = "app"
  /\ q[2].msg = q[1].msg

TransportDrop(c) ==
  /\ channel[c] # << >>
  /\ drops < MaxDrops
  /\ drops' = drops + 1
  /\ channel' = [channel EXCEPT ![c] = IF SamePost(@) THEN Tail(Tail(@)) ELSE Tail(@)]
  /\ posted' = << >> /\ rx' = NoRx
  /\ UNCHANGED <<beyond, open, store, timers, now, lag, nextId, injected, history>>

\* ------------------------------------------------------------------------
\* Envelopes of other origin on the channel
\* ------------------------------------------------------------------------
\* The listeners take event.data as a ReliableMessage without a check, and
\* the channel name is open to every script of the origin (a relay replaying
\* an envelope, a test harness).  The envelopes such a script may post:
ExternalId == MaxMsgs + 1

ExternalPayloads(type) ==
  CASE type = "NODE_STATE_CHANGE" ->
         {[nodeId |-> n, state |-> "warning"] : n \in NodeIds}
    [] type = "STATE_SYNC" ->
         {[nodes |-> [n \in NodeIds |-> "warning"]]}
    [] type = "ACKNOWLEDGEMENT" -> {[messageId |-> i] : i \in Ids}
    [] OTHER -> {[nodeId |-> ButtonNode, state |-> "warning"]}

ExternalTypes == {"NODE_STATE_CHANGE", "STATE_SYNC", "ACKNOWLEDGEMENT", "PING"}

ExternalEnvelopes ==
  UNION {
    {[id |-> i, type |-> t, payload |-> p, senderId |-> sd, attempts |-> a,
      maxAttempts |-> MAX_RETRY_ATTEMPTS] :
        i \in (1..(nextId - 1)) \cup {ExternalId}, p \in ExternalPayloads(t),
        sd \in Clients, a \in {2}} : t \in ExternalTypes}

\* a script outside the stores posts envelope m on the quiet channel; context
\* c receives it on both of its BroadcastChannel objects
ExternalPost(c, m) ==
  /\ c \in open
  /\ \A d \in Clients : channel[d] = << >>
  /\ injected < MaxExternal
  /\ injected' = injected + 1
  /\ channel' = [channel EXCEPT
                   ![c] = @ \o <<[msg |-> m, via |-> "store"], [msg |-> m, via |-> "app"]>>]
  /\ posted' = << >> /\ rx' = NoRx
  /\ UNCHANGED <<beyond, open, store, timers, now, lag, nextId, drops, history>>

\* ------------------------------------------------------------------------
\* Specifications
\* ------------------------------------------------------------------------
\* the context whose user presses the buttons where one origin is enough
Origin == "c1"

\* setNodeState calls a run makes: fewer where three contexts exchange ACKs
Budget == IF Cardinality(open) > 2 THEN MaxFewMsgs ELSE MaxMsgs

SendStep ==
  \E c \in Clients, s \in ButtonStates, r1 \in Rolls, r2 \in Rolls :
    nextId <= MaxFewMsgs /\ setNodeState(c, ButtonNode, s, r1, r2)

OriginSendStep ==
  \E s \in ButtonStates, r1 \in Rolls, r2 \in Rolls :
    nextId <= Budget /\ setNodeState(Origin, ButtonNode, s, r1, r2)

ChaosSendStep ==
  \E s \in ButtonStates, r1 \in Rolls, r2 \in Rolls :
    nextId <= MaxFewMsgs /\ setNodeState(Origin, ButtonNode, s, r1, r2)

DelayedSendStep == \E t \in timers : DelayedSend(t)

DeliverStep == \E c \in Clients : onmessage(c)

RetryStep ==
  \E c \in Clients : \E rolls \in [DOMAIN pendingMessages[c] -> Rolls] :
    retryPendingMessages(c, rolls)

\* the chaos panel of the origin is set up before the traffic starts
ChaosStep ==
  \E cfg \in ChaosUpdates : nextId = 1 /\ setChaosConfig(Origin, cfg)

DropStep == \E c \in Clients : TransportDrop(c)

ExternalStep == \E c \in Clients : \E m \in ExternalEnvelopes : ExternalPost(c, m)

\* a caller marks an envelope id that was issued as applied
\* Two tabs, either sending, and envelopes of other origin: the handler.
Init ==
  /\ open = {"c1", "c2"}
  /\ InitStore /\ vc = << >> /\ clients = RelayClients
  /\ TypicalUuids

Next ==
  \/ SendStep
  \/ DeliverStep
  \/ ExternalStep

Spec == Init /\ [][Next]_vars

\* the cleanup interval of a context fires
\* Two tabs, traffic that stops, and the cleanup loop over a long time.
InitCleanup ==
  /\ open = {"c1", "c2"}
  /\ InitStore /\ vc = << >> /\ clients = RelayClients
  /\ InitUuids

\* the buttons are used before the clock has moved
NextCleanup ==
  \/ \E s \in ButtonStates, r1 \in Rolls, r2 \in Rolls :
       now = 0 /\ nextId <= MaxFewMsgs /\ setNodeState(Origin, ButtonNode, s, r1, r2)
  \/ DeliverStep
  \/ \E c \in Clients : cleanupAcknowledgedMessages(c)
  \/ \E jump \in {CLEANUP_DELAY_MS, CLEANUP_DELAY_MS * 1000} : AdvanceQuiet(jump)
  \* a cleanup interval passes with an entry still open and no retry tick
  \* (the retry timer is late, or a caller invokes the store action itself)
  \/ /\ Waiting
     /\ now = 0
     /\ now' = CLEANUP_DELAY_MS
     /\ posted' = << >> /\ rx' = NoRx
     /\ UNCHANGED <<beyond, open, store, channel, timers, lag, nextId, drops, injected,
                    history>>

SpecCleanup == InitCleanup /\ [][NextCleanup]_vars

\* Two tabs, either sending, and callers of markMessageApplied.
InitMark ==
  /\ open = {"c1", "c2"}
  /\ InitStore /\ vc = << >> /\ clients = RelayClients
  /\ TypicalUuids

NextMark ==
  \/ SendStep
  \/ DeliverStep
  \/ \E c \in Clients : \E id \in 1..(nextId - 1) : markMessageApplied(c, id)

SpecMark == InitMark /\ [][NextMark]_vars

\* One tab alone or with a peer, under the chaos panel: the retry loop.
InitRetry ==
  /\ open \in {{"c1"}, {"c1", "c2"}}
  /\ InitStore /\ vc = << >> /\ clients = RelayClients
  /\ TypicalUuids

NextRetry ==
  \/ ChaosSendStep
  \/ DelayedSendStep
  \/ DeliverStep
  \/ RetryStep
  \/ ChaosStep
  \/ Advance

SpecRetry == InitRetry /\ [][NextRetry]_vars

\* Two or three tabs over a transport that loses message events.
InitLossy ==
  /\ open \in {{"c1", "c2"}, {"c1", "c2", "c3"}}
  /\ InitStore /\ vc = << >> /\ clients = RelayClients
  /\ TypicalUuids

NextLossy ==
  \/ OriginSendStep
  \/ DeliverStep
  \/ DropStep
  \/ RetryStep
  \/ Advance

SpecLossy == InitLossy /\ [][NextLossy]_vars

\* Two tabs, no chaos, a transport that delivers every message event.
InitSync ==
  /\ open = {"c1", "c2"}
  /\ InitStore /\ vc = << >> /\ clients = RelayClients
  /\ TypicalUuids

NextSync ==
  \/ OriginSendStep
  \/ DeliverStep
  \/ RetryStep
  \/ AdvanceBusy

Fairness ==
  /\ \A c \in Clients : WF_vars(onmessage(c))
  /\ WF_vars(RetryStep)

SpecSync == InitSync /\ [][NextSync]_vars /\ Fairness

\* ------------------------------------------------------------------------
\* The relay: MessageStore
\* ------------------------------------------------------------------------
\* the object the store keeps for a message; an envelope a client emits has
\* no acknowledged field, which every test of the store reads as false
QueuedMessage(message) ==
  [id |-> message.id, senderId |-> message.senderId, timestamp |-> message.timestamp,
   attempts |-> message.attempts, maxAttempts |-> message.maxAttempts,
   acknowledged |-> IF "acknowledged" \in DOMAIN message
                    THEN message.acknowledged ELSE FALSE]

\* map.set(key, value)
MapSet(map, key, value) ==
  [i \in DOMAIN map \cup {key} |-> IF i = key THEN value ELSE map[i]]

\* map.delete(key)
MapDelete(map, key) == [i \in DOMAIN map \ {key} |-> map[i]]

\* add(message): the pending map after the call
add(message) == MapSet(relayPending, message.id, QueuedMessage(message))

acknowledge_KeepsPending(messageId) ==
  IF messageId \notin DOMAIN relayPending
  THEN [pending |-> relayPending, delivered |-> relayDelivered,
        ret |-> messageId \in DOMAIN relayDelivered]
  ELSE [pending |-> relayPending,
        delivered |-> MapSet(relayDelivered, messageId,
                             [relayPending[messageId] EXCEPT !.acknowledged = TRUE]),
        ret |-> TRUE]

\* acknowledge(messageId): both maps after the call, and what it returns
acknowledge(messageId) ==
  IF messageId \notin DOMAIN relayPending
  THEN [pending |-> relayPending, delivered |-> relayDelivered,
        ret |-> messageId \in DOMAIN relayDelivered]
  ELSE [pending |-> MapDelete(relayPending, messageId),
        delivered |-> MapSet(relayDelivered, messageId,
                             [relayPending[messageId] EXCEPT !.acknowledged = TRUE]),
        ret |-> TRUE]

\* getPendingForRetry(ackTimeoutMs): the ids of the messages it returns
getPendingForRetry(ackTimeoutMs) ==
  {id \in DOMAIN relayPending :
     /\ ~relayPending[id].acknowledged
     /\ ~(relayPending[id].attempts >= relayPending[id].maxAttempts)
     /\ relayNow - relayPending[id].timestamp >= ackTimeoutMs}

\* incrementAttempts(messageId), for every id of a set: the pending map after
incrementAttempts(messageIds) ==
  [id \in DOMAIN relayPending |->
     IF id \in messageIds
     THEN [relayPending[id] EXCEPT !.attempts = @ + 1]
     ELSE relayPending[id]]

CleanupRemoves_AtAge(maxAgeMs) ==
  {id \in DOMAIN relayDelivered : relayNow - relayDelivered[id].timestamp >= maxAgeMs}

\* now - message.timestamp > maxAgeMs
CleanupRemoves(maxAgeMs) ==
  {id \in DOMAIN relayDelivered : relayNow - relayDelivered[id].timestamp > maxAgeMs}

\* cleanup(maxAgeMs): the delivered map after the call, and what it returns
cleanup(maxAgeMs) ==
  [delivered |-> [id \in DOMAIN relayDelivered \ CleanupRemoves(maxAgeMs) |->
                    relayDelivered[id]],
   ret |-> Cardinality(CleanupRemoves(maxAgeMs))]

\* what a call on the store leaves alone beside the two maps
StoreFrame ==
  UNCHANGED <<browser, relayNow, relayTicked, rateLimitTracker, relayJumps,
              lastTx, rebroadcasts, admitted, clients>>

addCall(message) ==
  /\ relayPending' = add(message)
  /\ relayOut' = [op |-> "add"]
  /\ UNCHANGED relayDelivered
  /\ StoreFrame

acknowledgeCall(messageId) ==
  /\ relayPending' = acknowledge(messageId).pending
  /\ relayDelivered' = acknowledge(messageId).delivered
  /\ relayOut' = [op |-> "acknowledge", ret |-> acknowledge(messageId).ret]
  /\ StoreFrame

getPendingForRetryCall(ackTimeoutMs) ==
  /\ relayOut' = [op |-> "getPendingForRetry", ret |-> getPendingForRetry(ackTimeoutMs)]
  /\ UNCHANGED <<relayPending, relayDelivered>>
  /\ StoreFrame

incrementAttemptsCall(messageId) ==
  /\ relayPending' = incrementAttempts({messageId})
  /\ relayOut' = [op |-> "incrementAttempts"]
  /\ UNCHANGED relayDelivered
  /\ StoreFrame

cleanupCall(maxAgeMs) ==
  /\ relayDelivered' = cleanup(maxAgeMs).delivered
  /\ relayOut' = [op |-> "cleanup", ret |-> cleanup(maxAgeMs).ret]
  /\ UNCHANGED relayPending
  /\ StoreFrame

clear ==
  /\ relayPending' = << >>
  /\ relayDelivered' = << >>
  /\ relayOut' = [op |-> "clear"]
  /\ StoreFrame

\* ------------------------------------------------------------------------
\* The relay: admission (checkRateLimit, validateMessage)
\* ------------------------------------------------------------------------
\* !tracker || tracker.resetTime < now
NewWindow(clientId) ==
  \/ clientId \notin DOMAIN rateLimitTracker
  \/ rateLimitTracker[clientId].resetTime < relayNow

\* checkRateLimit(clientId): what it returns
checkRateLimit(clientId) ==
  \/ NewWindow(clientId)
  \/ ~(rateLimitTracker[clientId].count >= RATE_LIMIT_MSGS_PER_SEC)

\* checkRateLimit(clientId): the tracker map after the call
Tracked(clientId) ==
  IF NewWindow(clientId)
  THEN MapSet(rateLimitTracker, clientId,
              [count |-> 1, resetTime |-> relayNow + RateWindowMs])
  ELSE IF rateLimitTracker[clientId].count >= RATE_LIMIT_MSGS_PER_SEC
  THEN rateLimitTracker
  ELSE [rateLimitTracker EXCEPT ![clientId].count = @ + 1]

\* /^[0-9a-f]{8}-[0-9a-f]{4}-[0-9a-f]{4}-[0-9a-f]{4}-[0-9a-f]{12}$/i
uuidRegex(id) == id.groups = UuidGroups /\ id.hex

\* typeof msg[field] !== 'string' || !msg[field], for type and senderId
Missing(msg, field) == field \notin DOMAIN msg \/ msg[field] = ""

validateMessage_AnyId(data) ==
  /\ "null" \notin DOMAIN data
  /\ "id" \in DOMAIN data /\ data.id # EmptyString
  /\ ~Missing(data, "type")
  /\ ~Missing(data, "senderId")

validateMessage(data) ==
  /\ "null" \notin DOMAIN data
  /\ "id" \in DOMAIN data /\ data.id # EmptyString
  /\ ~Missing(data, "type")
  /\ ~Missing(data, "senderId")
  /\ uuidRegex(data.id)

\* ------------------------------------------------------------------------
\* The relay: handlers and loops
\* ------------------------------------------------------------------------
EmitError(to, message) == [event |-> "error", to |-> to, message |-> message]

\* socket.on('message:send') of the socket of clientId
messageSend(clientId, data) ==
  /\ clientId \in clients
  /\ rateLimitTracker' = Tracked(clientId)
  /\ IF ~checkRateLimit(clientId)
     THEN /\ relayOut' = [op |-> "message:send",
                          events |-> {EmitError(clientId, "Rate limit exceeded")}]
          /\ UNCHANGED <<relayPending, lastTx, admitted>>
     ELSE IF ~validateMessage(data)
     THEN /\ relayOut' = [op |-> "message:send",
                          events |-> {EmitError(clientId, "Invalid message format")}]
          /\ UNCHANGED <<relayPending, lastTx, admitted>>
     ELSE /\ relayPending' = add(data)
          /\ relayOut' = [op |-> "message:send",
                          events |-> {[event |-> "message:receive", to |-> p, id |-> data.id] :
                                        p \in clients \ {clientId}}
                                     \cup {[event |-> "message:ack", to |-> clientId, id |-> data.id]}]
          /\ lastTx' = [lastTx EXCEPT ![data.id.key] = relayNow]
          /\ admitted' = [admitted EXCEPT ![clientId] =
                             MapSet(@, relayNow,
                                    IF relayNow \in DOMAIN @ THEN @[relayNow] + 1 ELSE 1)]
  /\ UNCHANGED <<browser, relayNow, relayTicked, relayDelivered, relayJumps, rebroadcasts,
                 clients>>

\* data.messageId of whatever the socket sent
MessageIdOf(data) == IF "messageId" \in DOMAIN data THEN data.messageId ELSE Undefined

\* socket.on('message:ack')
messageAck(data) ==
  /\ relayPending' = acknowledge(MessageIdOf(data)).pending
  /\ relayDelivered' = acknowledge(MessageIdOf(data)).delivered
  /\ relayOut' = [op |-> "message:ack",
                  events |-> {[event |-> "message:acked", to |-> p, id |-> MessageIdOf(data)] :
                                p \in {q \in clients : q = data.senderId}}]
  /\ UNCHANGED <<browser, relayNow, relayTicked, rateLimitTracker, relaySends, relayJumps,
                 lastTx, rebroadcasts, admitted, clients>>

\* setInterval(() => { ... }, ACK_TIMEOUT_MS): one run of the retry loop
relayRetryLoop ==
  LET toRetry == getPendingForRetry(ACK_TIMEOUT_MS)
  IN /\ ~relayTicked
     /\ relayTicked' = TRUE
     /\ relayPending' = incrementAttempts(toRetry)
     /\ relayOut' = [op |-> "retry",
                     events |-> {[event |-> "message:receive", to |-> p, id |-> id] :
                                   p \in clients, id \in toRetry}]
     /\ lastTx' = [k \in RelayKeys |-> IF Uuid(k) \in toRetry THEN relayNow ELSE lastTx[k]]
     /\ rebroadcasts' = [k \in RelayKeys |->
                           IF Uuid(k) \in toRetry THEN rebroadcasts[k] + 1
                           ELSE rebroadcasts[k]]
     /\ UNCHANGED <<browser, relayNow, relayDelivered, rateLimitTracker, relaySends,
                    relayJumps, admitted, clients>>

\* the admissions still within one second of the instant at
Recent(byTime, at) == [t \in {u \in DOMAIN byTime : at - u < RateWindowMs} |-> byTime[t]]

\* one retry interval passes on the relay
relayInterval ==
  /\ relayTicked
  /\ relayNow < MaxRelayIntervals * ACK_TIMEOUT_MS
  /\ relayNow' = relayNow + ACK_TIMEOUT_MS
  /\ relayTicked' = FALSE
  /\ relayOut' = NoOut
  /\ admitted' = [c \in RelayClients |-> Recent(admitted[c], relayNow')]
  /\ UNCHANGED <<browser, relayPending, relayDelivered, rateLimitTracker, relaySends,
                 relayJumps, lastTx, rebroadcasts, clients>>

\* time passes on the relay between two calls or two events
relayAdvance(jump) ==
  /\ relayJumps < MaxRelayJumps
  /\ relayJumps' = relayJumps + 1
  /\ relayNow' = relayNow + jump
  /\ relayOut' = NoOut
  /\ admitted' = [c \in RelayClients |-> Recent(admitted[c], relayNow')]
  /\ UNCHANGED <<browser, relayTicked, relayPending, relayDelivered, rateLimitTracker,
                 relaySends, lastTx, rebroadcasts, clients>>

\* the configured VITE_NEXUS_TOKEN
VITE_NEXUS_TOKEN == "nexus-token"

ioUse_AnyToken(token) == ~(token = "")

\* io.use: the middleware calls next() without an error; a missing token is
\* read like the empty string
ioUse(token) == ~(token = "") /\ ~(token # VITE_NEXUS_TOKEN)

\* a socket's handshake: the middleware, then io.on('connection')
connection(socket, token) ==
  /\ socket \notin clients
  /\ IF ioUse(token)
     THEN /\ clients' = clients \cup {socket}
          /\ relayOut' = [op |-> "connection",
                          events |-> {[event |-> "queue:sync", to |-> socket,
                                       pending |-> Cardinality(DOMAIN relayPending)]}]
     ELSE /\ clients' = clients
          /\ relayOut' = [op |-> "connect_error", events |-> {}]
  /\ UNCHANGED <<browser, relayNow, relayTicked, relayPending, relayDelivered,
                 rateLimitTracker, relaySends, relayJumps, lastTx, rebroadcasts, admitted>>

\* ------------------------------------------------------------------------
\* The relay: what the sockets send
\* ------------------------------------------------------------------------
\* sendReliableMessageInternal / retryPendingMessages: the envelope of key k
\* at its attempt a, stamped at
Envelope(k, a, at) ==
  [id |-> Uuid(k), type |-> "NODE_STATE_CHANGE", senderId |-> Owner(k),
   timestamp |-> at, attempts |-> a, maxAttempts |-> MAX_RETRY_ATTEMPTS]

Without(data, field) == [f \in DOMAIN data \ {field} |-> data[f]]

\* payloads validateMessage turns down
Malformed(k) ==
  LET d == Envelope(k, 0, relayNow)
  IN {[null |-> TRUE],
      Without(d, "id"), [d EXCEPT !.id = EmptyString],
      [d EXCEPT !.id = [groups |-> <<8, 4, 4, 4, 11>>, hex |-> TRUE, key |-> 0]],
      [d EXCEPT !.id = [groups |-> UuidGroups, hex |-> FALSE, key |-> 0]],
      Without(d, "type"), [d EXCEPT !.type = ""],
      Without(d, "senderId"), [d EXCEPT !.senderId = ""]}

\* sendAck(messageId, senderId) in socket mode: the envelope it emits
AckEnvelope(k, senderId) ==
  [id |-> Uuid(AckId), type |-> "ACKNOWLEDGEMENT", payload |-> [messageId |-> Uuid(k)],
   timestamp |-> relayNow, senderId |-> senderId, attempts |-> 0,
   maxAttempts |-> AckMaxAttempts]

\* ------------------------------------------------------------------------
\* The relay: specifications
\* ------------------------------------------------------------------------
InitRelaySpec ==
  open = RelayClients /\ InitStore /\ vc = << >> /\ clients = RelayClients /\ TypicalUuids

\* Two sockets, a few message:send events, the ACKs of sendAck and the retry
\* loop.  A client emits the first transmission of an envelope at once or by
\* its latency timer one timeout after it stamped the envelope, its first
\* retry, or an envelope without id.
NextRelay ==
  \/ /\ relaySends < MaxSends
     /\ relaySends' = relaySends + 1
     /\ \E k \in RelayKeys :
          \E data \in {Envelope(k, 0, relayNow), Envelope(k, 1, relayNow),
                       Envelope(k, 0, IF relayNow >= ACK_TIMEOUT_MS
                                      THEN relayNow - ACK_TIMEOUT_MS ELSE relayNow),
                       Without(Envelope(k, 0, relayNow), "id")} :
            messageSend(Owner(k), data)
  \/ \E k \in RelayKeys : \E c \in RelayClients \ {Owner(k)} : messageAck(AckEnvelope(k, c))
  \/ relayRetryLoop
  \/ relayInterval

SpecRelay == InitRelaySpec /\ [][NextRelay]_vars

\* Two sockets whose ACKs have the shape the message:ack handler declares,
\* { messageId, senderId }: a client sends an envelope, sends it again as its
\* first retry, peers acknowledge, and the retry and cleanup loops run.
NextAcked ==
  \/ /\ relaySends < MaxSends
     /\ relaySends' = relaySends + 1
     /\ \E k \in RelayKeys, a \in {0, 1} : messageSend(Owner(k), Envelope(k, a, relayNow))
  \/ \E k \in RelayKeys : \E c \in RelayClients \ {Owner(k)} :
       messageAck([messageId |-> Uuid(k), senderId |-> c])
  \/ relayRetryLoop
  \/ cleanupCall(CLEANUP_DELAY_MS) /\ UNCHANGED relaySends
  \/ relayInterval

SpecAcked == InitRelaySpec /\ [][NextAcked]_vars

\* At first no socket is connected; sockets shake hands with no token, a wrong one or
\* the configured one, and send whether or not they were taken.
NextAuth ==
  \/ \E socket \in RelayClients, token \in {"", "other-token", VITE_NEXUS_TOKEN} :
       connection(socket, token) /\ UNCHANGED relaySends
  \/ /\ relaySends < MaxSends
     /\ relaySends' = relaySends + 1
     /\ \E k \in RelayKeys : messageSend(Owner(k), Envelope(k, 0, relayNow))
  \/ relayRetryLoop
  \/ relayInterval

InitAuth == open = RelayClients /\ InitStore /\ vc = << >> /\ clients = {} /\ TypicalUuids
SpecAuth == InitAuth /\ [][NextAuth]_vars

\* what the calls on the exported store are given
StoreIds == {Uuid(k) : k \in RelayKeys} \cup {Undefined}
StoreJumps == {ACK_TIMEOUT_MS, CLEANUP_DELAY_MS}

\* Calls on the exported store, in any order, and time passing between them.
NextMessageStore ==
  \/ /\ relaySends < MaxAdds
     /\ relaySends' = relaySends + 1
     /\ \E k \in RelayKeys, m \in {AckMaxAttempts, MAX_RETRY_ATTEMPTS} :
          addCall([Envelope(k, 0, relayNow) EXCEPT !.maxAttempts = m]
                    @@ [acknowledged |-> FALSE])
  \/ /\ \E messageId \in StoreIds : acknowledgeCall(messageId)
     /\ UNCHANGED relaySends
  \/ getPendingForRetryCall(ACK_TIMEOUT_MS) /\ UNCHANGED relaySends
  \/ /\ \E k \in RelayKeys :
          /\ Uuid(k) \in DOMAIN relayPending
               => relayPending[Uuid(k)].attempts < MaxStoreAttempts
          /\ incrementAttemptsCall(Uuid(k))
     /\ UNCHANGED relaySends
  \/ /\ \E maxAgeMs \in StoreJumps : cleanupCall(maxAgeMs)
     /\ UNCHANGED relaySends
  \/ clear /\ UNCHANGED relaySends
  \/ \E jump \in StoreJumps : relayAdvance(jump)

SpecMessageStore == InitRelaySpec /\ [][NextMessageStore]_vars

\* A burst of well-formed message:send events of one identity.
NextBurst ==
  \/ messageSend(Owner(1), Envelope(1, 0, relayNow)) /\ UNCHANGED relaySends
  \/ \E jump \in {1, RateWindowMs} : relayAdvance(jump)

SpecBurst == InitRelaySpec /\ [][NextBurst]_vars

\* A burst of message:send events within one instant, well-formed or not,
\* with or without an acknowledged field, beside an event of a second identity.
NextAdmission ==
  \/ /\ \E data \in {Envelope(1, 0, relayNow),
                       Envelope(1, 0, relayNow) @@ [acknowledged |-> TRUE]}
                        \cup Malformed(1) :
          messageSend(Owner(1), data)
     /\ UNCHANGED relaySends
  \/ /\ relaySends < MaxOtherSends
     /\ relaySends' = relaySends + 1
     /\ \E data \in {Envelope(2, 0, relayNow)} \cup Malformed(2) :
          messageSend(Owner(2), data)

SpecAdmission == InitRelaySpec /\ [][NextAdmission]_vars

\* ------------------------------------------------------------------------
\* Context lifecycle: the retry and cleanup intervals
\* ------------------------------------------------------------------------
\* onRehydrateStorage without the clearInterval calls
onRehydrateStorage_NoClear(c) ==
  /\ c \in open
  /\ _retryIntervalId' = [_retryIntervalId EXCEPT ![c] = nextHandle[c]]
  /\ _cleanupIntervalId' = [_cleanupIntervalId EXCEPT ![c] = nextHandle[c] + 1]
  /\ intervals' =
       [intervals EXCEPT ![c] =
          @ \cup {[id |-> nextHandle[c], fn |-> "retryPendingMessages"],
                  [id |-> nextHandle[c] + 1, fn |-> "cleanupAcknowledgedMessages"]}]
  /\ nextHandle' = [nextHandle EXCEPT ![c] = @ + 2]
  /\ posted' = << >> /\ rx' = NoRx
  /\ UNCHANGED <<uuidPrefix, cleanedAt, relay, vc, open, store, channel, timers, now, lag,
                 nextId, drops, injected, history, tornDown,
                 _socket, _socketConnected, _transportType, awaiting, routes>>

\* the callback of onRehydrateStorage: channel.onmessage is set (again), each
\* interval is cleared if its id is set and started anew, and a beforeunload
\* listener is added
onRehydrateStorage(c) ==
  /\ c \in open
  /\ _retryIntervalId' = [_retryIntervalId EXCEPT ![c] = nextHandle[c]]
  /\ _cleanupIntervalId' = [_cleanupIntervalId EXCEPT ![c] = nextHandle[c] + 1]
  /\ intervals' =
       [intervals EXCEPT ![c] =
          {t \in @ : t.id \notin {_retryIntervalId[c], _cleanupIntervalId[c]}}
            \cup {[id |-> nextHandle[c], fn |-> "retryPendingMessages"],
                  [id |-> nextHandle[c] + 1, fn |-> "cleanupAcknowledgedMessages"]}]
  /\ nextHandle' = [nextHandle EXCEPT ![c] = @ + 2]
  /\ posted' = << >> /\ rx' = NoRx
  /\ UNCHANGED <<uuidPrefix, cleanedAt, relay, vc, open, store, channel, timers, now, lag,
                 nextId, drops, injected, history, tornDown,
                 _socket, _socketConnected, _transportType, awaiting, routes>>

\* window 'beforeunload': every listener added by onRehydrateStorage clears
\* the two intervals whose ids the module holds; nothing else is released
beforeunload(c) ==
  /\ c \in open
  /\ intervals' =
       [intervals EXCEPT ![c] =
          {t \in @ : t.id \notin {_retryIntervalId[c], _cleanupIntervalId[c]}}]
  /\ tornDown' = tornDown \cup {c}
  /\ posted' = << >> /\ rx' = NoRx
  /\ UNCHANGED <<uuidPrefix, cleanedAt, relay, vc, open, store, channel, timers, now, lag,
                 nextId, drops, injected, history, _retryIntervalId, _cleanupIntervalId,
                 nextHandle, _socket, _socketConnected, _transportType, awaiting, routes>>

\* One tab or two: rehydration runs again, a window dispatches beforeunload and
\* stays loaded until its navigation commits; the retry and cleanup ticks
\* of a context run while its intervals are active.
NextLifecycle ==
  \/ \E c \in open \ tornDown :
       nextHandle[c] < 3 + 2 * MaxRehydrations /\ onRehydrateStorage(c)
  \/ \E c \in open \ tornDown : beforeunload(c)
  \/ SendStep
  \/ DeliverStep
  \/ \E c \in Clients :
       /\ \E t \in intervals[c] : t.fn = "retryPendingMessages"
       /\ \E rolls \in [DOMAIN pendingMessages[c] -> Rolls] : retryPendingMessages(c, rolls)
  \/ \E c \in Clients :
       /\ \E t \in intervals[c] : t.fn = "cleanupAcknowledgedMessages"
       /\ cleanupAcknowledgedMessages(c)
  \/ Advance

SpecLifecycle == InitRetry /\ [][NextLifecycle]_vars

\* ------------------------------------------------------------------------
\* The transport module of the origin
\* ------------------------------------------------------------------------
\* everything of the page outside the transport module
outside == <<open, store, channel, timers, now, lag, nextId, drops, injected, posted,
             rx, history, uuidPrefix, cleanedAt, relay, vc,
             _retryIntervalId, _cleanupIntervalId, intervals, nextHandle, tornDown>>

\* _transportType === 'websocket' && _socket && _socketConnected
UsesSocket == _transportType = "websocket" /\ _socket # 0 /\ _socketConnected

\* initWebSocket up to its await: the type is switched before the import
initWebSocket ==
  /\ awaiting < MaxAwaiting
  /\ Len(routes) < MaxRouted
  /\ _transportType' = "websocket"
  /\ awaiting' = awaiting + 1
  /\ UNCHANGED <<_socket, _socketConnected, routes, outside>>

closeWebSocket ==
  /\ IF _socket # 0
     THEN _socket' = 0 /\ _socketConnected' = FALSE
     ELSE UNCHANGED <<_socket, _socketConnected>>
  /\ UNCHANGED <<_transportType, awaiting, routes, outside>>

setTransportType(type) ==
  /\ _transportType' = type
  /\ UNCHANGED <<_socket, _socketConnected, awaiting, routes, outside>>

\* Calls on the transport module, the events of its socket, and sends.
NextTransport ==
  \/ initWebSocket
  \* the import resolved: _socket = io(wsUrl, ...), handlers registered
  \/ /\ awaiting > 0
     /\ awaiting' = awaiting - 1
     /\ _socket' = 1
     /\ routes' = Append(routes, "socket")
     /\ UNCHANGED <<_socketConnected, _transportType, outside>>
  \* the import threw: the catch block falls back and returns null
  \/ /\ awaiting > 0
     /\ awaiting' = awaiting - 1
     /\ _transportType' = "broadcastchannel"
     /\ routes' = Append(routes, "null")
     /\ UNCHANGED <<_socket, _socketConnected, outside>>
  \* socket.on('connect')
  \/ /\ _socket # 0
     /\ _socketConnected' = TRUE
     /\ UNCHANGED <<_socket, _transportType, awaiting, routes, outside>>
  \* socket.on('disconnect')
  \/ /\ _socket # 0
     /\ _socketConnected' = FALSE
     /\ UNCHANGED <<_socket, _transportType, awaiting, routes, outside>>
  \/ closeWebSocket
  \/ \E type \in {"broadcastchannel", "websocket"} : setTransportType(type)
  \* sendViaTransport(message) or sendAck(messageId, senderId)
  \/ /\ Len(routes) < MaxRouted
     /\ routes' = Append(routes, IF UsesSocket THEN "websocket" ELSE "broadcastchannel")
     /\ UNCHANGED <<_socket, _socketConnected, _transportType, awaiting, outside>>

SpecTransport == Init /\ [][NextTransport]_vars

\* ------------------------------------------------------------------------
\* Vector clocks
\* ------------------------------------------------------------------------
\* clock[clientId] || 0
Counter(clock, clientId) == IF clientId \in DOMAIN clock THEN clock[clientId] ELSE 0

mergeClocks_LocalIds(local, remote) ==
  [clientId \in DOMAIN local |->
     IF Counter(local, clientId) >= Counter(remote, clientId)
     THEN Counter(local, clientId) ELSE Counter(remote, clientId)]

\* Math.max of the two counters for every id of either clock
mergeClocks(local, remote) ==
  [clientId \in DOMAIN local \cup DOMAIN remote |->
     IF Counter(local, clientId) >= Counter(remote, clientId)
     THEN Counter(local, clientId) ELSE Counter(remote, clientId)]

compareClocks_NoLess(clockA, clockB) ==
  LET clientIds == DOMAIN clockA \cup DOMAIN clockB
      aGreater == \E id \in clientIds : Counter(clockA, id) > Counter(clockB, id)
      bGreater == \E id \in clientIds : Counter(clockB, id) > Counter(clockA, id)
  IN IF aGreater /\ bGreater THEN "concurrent"
     ELSE IF aGreater THEN "greater"
     ELSE "equal"

compareClocks(clockA, clockB) ==
  LET clientIds == DOMAIN clockA \cup DOMAIN clockB
      aGreater == \E id \in clientIds : Counter(clockA, id) > Counter(clockB, id)
      bGreater == \E id \in clientIds : Counter(clockB, id) > Counter(clockA, id)
  IN IF aGreater /\ bGreater THEN "concurrent"
     ELSE IF aGreater THEN "greater"
     ELSE IF bGreater THEN "less"
     ELSE "equal"

\* the return false of the forEach callback ends that callback only: the
\* loop goes on and the function returns atLeastOneLess
happenedBefore(clockA, clockB) ==
  \E id \in DOMAIN clockA \cup DOMAIN clockB : Counter(clockA, id) < Counter(clockB, id)

\* Three clocks over two client ids, each counter missing or 0..MaxCounter,
\* and calls of the three functions on them.
InitClocks ==
  /\ open = {} /\ InitStore /\ clients = {} /\ TypicalUuids
  /\ \E a, b, c \in UNION {[ids -> 0..MaxCounter] : ids \in SUBSET RelayClients} :
       vc = [a |-> a, b |-> b, c |-> c, out |-> [op |-> "none"]]

NextClocks ==
  /\ \/ vc' = [vc EXCEPT !.out = [op |-> "mergeClocks", ret |-> mergeClocks(vc.a, vc.b)]]
     \/ vc' = [vc EXCEPT !.out = [op |-> "compareClocks", ret |-> compareClocks(vc.a, vc.b)]]
     \/ vc' = [vc EXCEPT !.out = [op |-> "happenedBefore",
                                  ret |-> happenedBefore(vc.a, vc.b)]]
  /\ UNCHANGED <<open, store, channel, timers, now, lag, nextId, drops, injected, posted,
                 rx, history, uuidPrefix, cleanedAt, relay,
                 _retryIntervalId, _cleanupIntervalId, intervals, nextHandle, tornDown,
                 _socket, _socketConnected, _transportType, awaiting, routes>>

SpecClocks == InitClocks /\ [][NextClocks]_vars

\* ------------------------------------------------------------------------
\* Properties
\* ------------------------------------------------------------------------
\* the message event at the head of the queue of context c
Incoming(c) == Head(channel[c]).msg

\* C1: a listener call on an envelope whose id is already in the context's
\* applied-id set leaves every node state of the context as it was; of two
\* deliveries of a foreign NODE_STATE_CHANGE only the first changes a node.
C1_DuplicateKeepsNodes ==
  [][\A c \in Clients :
       (onmessage(c) /\ Incoming(c).id \in appliedMessageIds[c])
         => nodes'[c] = nodes[c]]_vars

\* a known envelope of a peer reached a listener while the node it names
\* is in another state than the one the envelope carries
C1_Witness ==
  /\ rx # NoRx
  /\ rx.known
  /\ rx.msg.senderId # rx.to
  /\ rx.msg.type = "NODE_STATE_CHANGE"
  /\ nodes[rx.to][rx.msg.payload.nodeId] # rx.msg.payload.state

\* C2: a listener call on an envelope whose senderId is the context's own
\* client id changes no node state, adds no id to the applied-id set and
\* changes no pending entry, whatever the type of the envelope.
C2_OwnEnvelopeIgnored ==
  [][\A c \in Clients :
       (onmessage(c) /\ Incoming(c).senderId = c)
         => /\ nodes'[c] = nodes[c]
            /\ appliedMessageIds'[c] = appliedMessageIds[c]
            /\ pendingMessages'[c] = pendingMessages[c]]_vars

\* an ACK under the context's own client id, naming one of its open pending
\* entries, reached a listener
C2_Witness ==
  /\ rx # NoRx
  /\ rx.msg.senderId = rx.to
  /\ rx.msg.type = "ACKNOWLEDGEMENT"
  /\ rx.msg.payload.messageId \in DOMAIN pendingMessages[rx.to]
  /\ ~pendingMessages[rx.to][rx.msg.payload.messageId].acknowledged

\* C10: a listener call on a foreign envelope whose id is already in the
\* applied-id set posts exactly one ACK for that id.
C10_OneAckPerDuplicate ==
  [][\A c \in Clients :
       (onmessage(c) /\ Incoming(c).id \in appliedMessageIds[c]
                     /\ Incoming(c).senderId # c)
         => Len(posted') = 1]_vars

\* envelope i is in the applied-id set of every open peer of its sender
AppliedAtPeers(i) ==
  /\ i \in 1..Len(sent)
  /\ \A p \in open \ {sent[i].senderId} : i \in appliedMessageIds[p]

\* the sender's entry of envelope i was closed by an ACK it received
ClosedByAck(i) ==
  /\ i \in 1..Len(sent)
  /\ i \in DOMAIN pendingMessages[sent[i].senderId]
  /\ pendingMessages[sent[i].senderId][i].acknowledged
  /\ ackedBy[i] # {}
  /\ i \notin gaveUp

\* C3: with packetLossRate = 0, no latency chaos and a transport that
\* delivers every message, every envelope created by setNodeState is
\* eventually applied at each peer and its pending entry is eventually
\* closed by a received ACK, not by give-up; the step that applies it puts
\* the peer's node into the new state.
C3_SentIsAppliedAndAcked ==
  /\ \A i \in Ids :
       (Len(sent) >= i) ~> (AppliedAtPeers(i) /\ ClosedByAck(i))
  /\ [][\A p \in Clients : \A i \in 1..Len(sent) :
          (i \notin appliedMessageIds[p] /\ i \in appliedMessageIds'[p])
            => nodes'[p][sent[i].payload.nodeId] = sent[i].payload.state]_vars

\* an envelope that was retransmitted is applied at the peer, the peer's
\* node shows its state and the sender's entry is closed by the peer's ACK
C3_Witness ==
  \E i \in 1..Len(sent) :
    /\ chaosConfig[sent[i].senderId].packetLossRate = 0
    /\ open \ {sent[i].senderId} # {}
    /\ AppliedAtPeers(i)
    /\ ClosedByAck(i)
    /\ txCount[i] >= 2
    /\ \A p \in open \ {sent[i].senderId} :
         lastApplied[p][sent[i].payload.nodeId] = i
           => nodes[p][sent[i].payload.nodeId] = sent[i].payload.state

\* some retry tick of context c
RetryTick(c) ==
  \E rolls \in [DOMAIN pendingMessages[c] -> Rolls] : retryPendingMessages(c, rolls)

\* C4: once the attempts value of a pending entry has reached the attempt
\* limit, no step transmits its envelope or raises its attempts again; the
\* retry tick that finds the entry due marks it acknowledged, and it stays
\* acknowledged.
C4_StopsAtAttemptLimit ==
  [][\A c \in Clients : \A i \in DOMAIN pendingMessages[c] :
       pendingMessages[c][i].message.attempts >= MAX_RETRY_ATTEMPTS
         => /\ txCount'[i] = txCount[i]
            /\ i \in DOMAIN pendingMessages'[c]
                 => /\ pendingMessages'[c][i].message = pendingMessages[c][i].message
                    /\ pendingMessages[c][i].acknowledged
                         => pendingMessages'[c][i].acknowledged
                    /\ (RetryTick(c) /\ Due(c, i))
                         => pendingMessages'[c][i].acknowledged]_vars

\* an entry no ACK ever reached was given up: it is marked acknowledged, its
\* attempts value is the limit and its due ticks outnumber its transmissions
\* by the tick that gave up
C4_Witness ==
  \E c \in Clients : \E i \in DOMAIN pendingMessages[c] :
    /\ i \in gaveUp
    /\ ackedBy[i] = {}
    /\ pendingMessages[c][i].acknowledged
    /\ pendingMessages[c][i].message.attempts = MAX_RETRY_ATTEMPTS
    /\ dueTicks[i] = MAX_RETRY_ATTEMPTS + 1

\* C6: with packetLossRate at 1.0 and no ACK received, an entry that retry
\* ticks found due more often than the attempt limit is marked acknowledged.
C6_GivenUpUnderTotalLoss ==
  \A c \in Clients : \A i \in DOMAIN pendingMessages[c] :
    (/\ chaosConfig[c].packetLossRate = 100
     /\ ackedBy[i] = {}
     /\ dueTicks[i] > MAX_RETRY_ATTEMPTS)
      => pendingMessages[c][i].acknowledged

\* C7: an envelope no ACK reached was transmitted at most attempt-limit
\* times, the original send included, so it was retransmitted at most
\* attempt-limit - 1 times.
C7_AtMostLimitTransmissions ==
  \A c \in Clients : \A i \in DOMAIN pendingMessages[c] :
    ackedBy[i] = {}
      => /\ txCount[i] <= MAX_RETRY_ATTEMPTS
         /\ pendingMessages[c][i].message.attempts <= MAX_RETRY_ATTEMPTS - 1

\* C8: the step of setNodeState puts the local node into the requested
\* state and registers the pending entry of the new envelope with
\* acknowledged = false and attempts = 0, whether the transmission was
\* dropped by the chaos policy, delayed or sent at once.
C8_OptimisticUpdateAndEntry ==
  [][\A c \in Clients : \A n \in NodeIds : \A st \in NodeStates :
     \A roll \in Rolls : \A roll2 \in Rolls :
       setNodeState(c, n, st, roll, roll2)
         => /\ nodes'[c][n] = st
            /\ nextId \in DOMAIN pendingMessages'[c]
            /\ ~pendingMessages'[c][nextId].acknowledged
            /\ pendingMessages'[c][nextId].message.attempts = 0
            /\ pendingMessages'[c][nextId].message.payload =
                 [nodeId |-> n, state |-> st]]_vars

\* the transmission of a new envelope waits on the latency timer while the
\* local node already shows the requested state and the entry is open
C8_Witness ==
  \E t \in timers :
    /\ t.msg.id \in DOMAIN pendingMessages[t.from]
    /\ ~pendingMessages[t.from][t.msg.id].acknowledged
    /\ pendingMessages[t.from][t.msg.id].message.attempts = 0
    /\ txCount[t.msg.id] = 0
    /\ t.msg.payload.state # "normal"
    /\ nodes[t.from][t.msg.payload.nodeId] = t.msg.payload.state

\* nothing is queued, no timer runs and no entry waits for a retry
Quiescent == Idle /\ timers = {} /\ ~Waiting

\* C5: once the traffic has settled, an envelope whose pending entry was
\* closed by a received ACK is in the applied-id set of every peer context.
C5_AckedMeansAppliedEverywhere ==
  \A i \in 1..Len(sent) :
    (Quiescent /\ ClosedByAck(i)) => AppliedAtPeers(i)

\* the envelopes the origin sent for the node of the buttons, oldest first
ButtonChanges == SelectSeq(sent, LAMBDA m : m.senderId = Origin /\ m.payload.nodeId = ButtonNode)

\* every entry of the origin was closed by an ACK of peer p
AllAckedBy(p) ==
  /\ Len(ButtonChanges) >= 2
  /\ \A i \in 1..Len(sent) : ClosedByAck(i) /\ p \in ackedBy[i]

\* C9 as stated: after successive state changes of one node, all of them
\* acknowledged by an ACK of the peer, the peer's state of the node is the
\* state the origin set last.
C9_PeerShowsLastSetState ==
  \A p \in open \ {Origin} :
    AllAckedBy(p)
      => nodes[p][ButtonNode] = ButtonChanges[Len(ButtonChanges)].payload.state

\* C9 amended: after successive state changes of one node, all of them
\* acknowledged by an ACK of the peer, the peer's state of the node is the
\* state of the origin's envelope the peer applied last; it is the state
\* the origin set last when that envelope was the last one the peer applied.
C9_PeerShowsLastAppliedState ==
  \A p \in open \ {Origin} :
    AllAckedBy(p)
      => /\ lastApplied[p][ButtonNode] \in 1..Len(sent)
         /\ nodes[p][ButtonNode] = sent[lastApplied[p][ButtonNode]].payload.state
         /\ lastApplied[p][ButtonNode] = Len(sent)
              => nodes[p][ButtonNode] = ButtonChanges[Len(ButtonChanges)].payload.state

\* both changes are acknowledged by the peer, which applied the first one
\* last, from a retransmission, and shows its state
C9_Witness ==
  \E p \in open \ {Origin} :
    /\ AllAckedBy(p)
    /\ lastApplied[p][ButtonNode] = 1
    /\ txCount[1] >= 2
    /\ sent[1].payload.state # sent[2].payload.state
    /\ nodes[p][ButtonNode] = sent[1].payload.state

\* C11: no listener call on an envelope whose senderId is the context's own
\* client id posts an ACK, whatever store actions (markMessageApplied
\* included) and deliveries came before.
C11_NoAckForOwnEnvelope ==
  [][\A c \in Clients :
       (onmessage(c) /\ Incoming(c).senderId = c) => posted' = << >>]_vars

\* C12: every entry of a context's pending ledger holds a NODE_STATE_CHANGE
\* envelope of that context's own client id; a retry tick posts only such
\* envelopes, never an ACKNOWLEDGEMENT; a listener call on an
\* ACKNOWLEDGEMENT posts nothing.
C12_AcksAreFireAndForget ==
  /\ [](\A c \in Clients : \A i \in DOMAIN pendingMessages[c] :
         /\ pendingMessages[c][i].message.type = "NODE_STATE_CHANGE"
         /\ pendingMessages[c][i].message.senderId = c
         /\ pendingMessages[c][i].message.id = i)
  /\ [][\A c \in Clients :
          /\ RetryTick(c)
               => \A k \in 1..Len(posted') :
                    /\ posted'[k].type = "NODE_STATE_CHANGE"
                    /\ posted'[k].senderId = c
          /\ (onmessage(c) /\ Incoming(c).type = "ACKNOWLEDGEMENT")
               => posted' = << >>]_vars

\* the ACK of a peer closed an entry that had been retransmitted, and the
\* listener call that handled the ACK posted nothing
C12_Witness ==
  /\ rx # NoRx
  /\ rx.msg.type = "ACKNOWLEDGEMENT"
  /\ rx.msg.senderId # rx.to
  /\ rx.ret
  /\ posted = << >>
  /\ rx.msg.payload.messageId \in DOMAIN pendingMessages[rx.to]
  /\ pendingMessages[rx.to][rx.msg.payload.messageId].acknowledged
  /\ txCount[rx.msg.payload.messageId] >= 2

\* C13: once the traffic is over, every entry acknowledged, and a cleanup
\* tick has run later than the retention window after it, the pending
\* ledger and the applied-id set of the context are empty.
C13_LedgersEmptyAfterWindow ==
  \A c \in open :
    (Quiescent /\ cleanedAt[c] > CLEANUP_DELAY_MS * 1000)
      => /\ pendingMessages[c] = << >>
         /\ appliedMessageIds[c] = {}

\* C14: acknowledge(id) on an id of the pending map removes it from pending,
\* stores it in delivered with acknowledged = true and returns true; on an id
\* of neither map it returns false and leaves both maps as they were.
C14_AcknowledgeMovesOrRefuses ==
  [][\A id \in StoreIds :
       acknowledgeCall(id) =>
         /\ id \in DOMAIN relayPending =>
              /\ relayPending' = MapDelete(relayPending, id)
              /\ id \in DOMAIN relayDelivered'
              /\ relayDelivered'[id] = [relayPending[id] EXCEPT !.acknowledged = TRUE]
              /\ \A other \in DOMAIN relayDelivered \ {id} :
                   /\ other \in DOMAIN relayDelivered'
                   /\ relayDelivered'[other] = relayDelivered[other]
              /\ relayOut'.ret = TRUE
         /\ (id \notin DOMAIN relayPending /\ id \notin DOMAIN relayDelivered) =>
              /\ relayOut'.ret = FALSE
              /\ UNCHANGED <<relayPending, relayDelivered>>]_vars

\* acknowledge has just moved an entry, and another id is still pending
C14_Witness ==
  /\ relayOut.op = "acknowledge"
  /\ relayOut.ret
  /\ \E id \in DOMAIN relayDelivered :
       /\ id \notin DOMAIN relayPending
       /\ relayDelivered[id].acknowledged
  /\ relayPending # << >>

\* C15: a run of the retry loop gets from getPendingForRetry(timeout)
\* exactly the pending entries that are unacknowledged, have attempts below
\* maxAttempts, and were last transmitted or retransmitted by the relay at
\* least timeout milliseconds ago.
C15_ScanByLastTransmission ==
  [][relayRetryLoop =>
       getPendingForRetry(ACK_TIMEOUT_MS) =
         {id \in DOMAIN relayPending :
            /\ ~relayPending[id].acknowledged
            /\ relayPending[id].attempts < relayPending[id].maxAttempts
            /\ relayNow - lastTx[id.key] >= ACK_TIMEOUT_MS}]_vars

\* C16: the retry loop of the relay rebroadcasts an envelope id at most
\* maxAttempts times, whatever message:send events (re-sends of the same id
\* by its client among them) come between its runs.
C16_AtMostMaxAttemptsRebroadcasts ==
  \A k \in RelayKeys : rebroadcasts[k] <= MAX_RETRY_ATTEMPTS

\* C17: cleanup(maxAgeMs) removes exactly the delivered entries older than
\* maxAgeMs and returns their number; it leaves the pending map as it was,
\* however old its entries are.
C17_CleanupPurgesDeliveredOnly ==
  [][\A maxAgeMs \in StoreJumps :
       cleanupCall(maxAgeMs) =>
         LET older == {id \in DOMAIN relayDelivered :
                         relayNow - relayDelivered[id].timestamp > maxAgeMs}
         IN /\ DOMAIN relayDelivered' = DOMAIN relayDelivered \ older
            /\ \A id \in DOMAIN relayDelivered' : relayDelivered'[id] = relayDelivered[id]
            /\ relayOut'.ret = Cardinality(older)
            /\ relayPending' = relayPending]_vars

\* cleanup has just removed a delivered entry, and a pending entry older
\* than the age it was called with is still there
C17_Witness ==
  /\ relayOut.op = "cleanup"
  /\ relayOut.ret = 1
  /\ relayDelivered = << >>
  /\ \E id \in DOMAIN relayPending :
       relayNow - relayPending[id].timestamp > CLEANUP_DELAY_MS

\* C18: when the relay takes the message:ack a receiving client's sendAck
\* emitted for envelope X, and X is in the pending map, the store moves X
\* from pending to delivered.
C18_AckClosesRelayEntry ==
  [][\A k \in RelayKeys : \A c \in RelayClients \ {Owner(k)} :
       (messageAck(AckEnvelope(k, c)) /\ Uuid(k) \in DOMAIN relayPending)
         => /\ Uuid(k) \notin DOMAIN relayPending'
            /\ Uuid(k) \in DOMAIN relayDelivered']_vars

\* C19: a message:send event whose payload lacks id, type or senderId or
\* has an id that is not UUID-shaped, or that the rate limiter rejects,
\* leaves the message store as it was and emits nothing but an error event
\* to the sending socket.
C19_RejectedNeverQueuedNorBroadcast ==
  [][\A k \in RelayKeys :
       (\/ \E data \in Malformed(k) : messageSend(Owner(k), data)
        \/ ~checkRateLimit(Owner(k)) /\ messageSend(Owner(k), Envelope(k, 0, relayNow)))
         => /\ UNCHANGED <<relayPending, relayDelivered>>
            /\ relayOut'.events # {}
            /\ \A e \in relayOut'.events : e.event = "error" /\ e.to = Owner(k)]_vars

\* the rate limiter has just rejected an event of a window in which other
\* events were admitted and others failed validation
C19_Witness ==
  /\ relayOut.op = "message:send"
  /\ relayOut.events = {EmitError(Owner(1), "Rate limit exceeded")}
  /\ relayPending # << >>
  /\ 0 \in DOMAIN admitted[Owner(1)]
  /\ admitted[Owner(1)][0] < RATE_LIMIT_MSGS_PER_SEC

\* how many events the admissions by time count in all
RECURSIVE Total(_)
Total(byTime) ==
  IF DOMAIN byTime = {} THEN 0
  ELSE LET t == CHOOSE u \in DOMAIN byTime : TRUE
       IN byTime[t] + Total([u \in DOMAIN byTime \ {t} |-> byTime[u]])

\* C20: over the one-second interval that ends now, the relay has admitted
\* (queued and broadcast) at most 100 message:send events of one identity.
C20_AtMostLimitPerSecond ==
  \A c \in RelayClients : Total(admitted[c]) <= RATE_LIMIT_MSGS_PER_SEC

\* C21: a socket whose handshake token is missing or is not the configured
\* one is not added to the clients map and is sent nothing; every event the
\* relay emits goes to a socket of the clients map, and only such a socket
\* has its message:send processed.
C21_RejectedSocketStaysOutside ==
  [][/\ \A socket \in RelayClients : \A token \in {"", "other-token"} :
          connection(socket, token) => clients' = clients /\ relayOut'.events = {}
     /\ relayOut'.op # "none" => \A e \in relayOut'.events : e.to \in clients'
     /\ \A k \in RelayKeys :
          messageSend(Owner(k), Envelope(k, 0, relayNow)) => Owner(k) \in clients]_vars

\* one socket was taken, the other was turned down, and an envelope of the
\* first was queued and broadcast to nobody else
C21_Witness ==
  /\ clients = {"c1"}
  /\ relayOut.op = "connect_error"
  /\ relayPending # << >>

\* C22: mergeClocks(a, b) holds for every client id the larger of the two
\* counters (a missing one counts as 0); merging is commutative, associative
\* and idempotent, and the merged clock compares 'greater' or 'equal' to
\* each input.
C22_MergeIsLeastUpperBound ==
  LET m == mergeClocks(vc.a, vc.b)
  IN /\ \A id \in RelayClients :
          /\ Counter(m, id) >= Counter(vc.a, id)
          /\ Counter(m, id) >= Counter(vc.b, id)
          /\ Counter(m, id) \in {Counter(vc.a, id), Counter(vc.b, id)}
     /\ m = mergeClocks(vc.b, vc.a)
     /\ mergeClocks(m, vc.c) = mergeClocks(vc.a, mergeClocks(vc.b, vc.c))
     /\ mergeClocks(vc.a, vc.a) = vc.a
     /\ compareClocks(m, vc.a) \in {"greater", "equal"}
     /\ compareClocks(m, vc.b) \in {"greater", "equal"}

\* two concurrent clocks over different client ids were merged
C22_Witness ==
  /\ vc.out.op = "mergeClocks"
  /\ DOMAIN vc.a # DOMAIN vc.b
  /\ compareClocks(vc.a, vc.b) = "concurrent"
  /\ vc.out.ret # vc.a /\ vc.out.ret # vc.b

\* C23: compareClocks(a, b) is 'equal' iff all counters agree (a missing one
\* counts as 0), 'greater' iff a >= b in every counter and a > b in one,
\* 'less' iff the reverse, 'concurrent' otherwise; so it is 'greater' iff
\* compareClocks(b, a) is 'less', and 'concurrent' and 'equal' are symmetric.
C23_CompareIsThePartialOrder ==
  LET r == compareClocks(vc.a, vc.b)
      back == compareClocks(vc.b, vc.a)
      geq == \A id \in RelayClients : Counter(vc.a, id) >= Counter(vc.b, id)
      leq == \A id \in RelayClients : Counter(vc.a, id) <= Counter(vc.b, id)
  IN /\ (r = "equal") <=> (geq /\ leq)
     /\ (r = "greater") <=> (geq /\ ~leq)
     /\ (r = "less") <=> (leq /\ ~geq)
     /\ (r = "concurrent") <=> (~geq /\ ~leq)
     /\ (r = "greater") <=> (back = "less")
     /\ (r = "concurrent") <=> (back = "concurrent")
     /\ (r = "equal") <=> (back = "equal")

\* compareClocks has just told a clock with a missing counter to be less
C23_Witness ==
  /\ vc.out.op = "compareClocks"
  /\ vc.out.ret = "less"
  /\ DOMAIN vc.a # DOMAIN vc.b

\* C24: happenedBefore(a, b) is true iff a <= b in every counter and a < b in
\* one, that is iff compareClocks(a, b) = 'less'; it is false whenever a
\* exceeds b in a counter.
C24_HappenedBeforeIsLess ==
  /\ happenedBefore(vc.a, vc.b) <=> (compareClocks(vc.a, vc.b) = "less")
  /\ (\E id \in RelayClients : Counter(vc.a, id) > Counter(vc.b, id))
       => ~happenedBefore(vc.a, vc.b)

\* C25: in a retry tick, an entry whose due retry the chaos roll drops keeps
\* its envelope (attempts included) and its acknowledged flag and gets
\* lastAttempt = now; its envelope is not transmitted; the retries metric
\* rises by the number of envelopes the tick transmitted, so it is unchanged
\* when every due retry of the tick was dropped.
C25_DroppedRetryOnlyConsumesTime ==
  [][\A c \in Clients : \A rolls \in [DOMAIN pendingMessages[c] -> Rolls] :
       retryPendingMessages(c, rolls)
         => /\ metrics'[c].retries = metrics[c].retries + Len(posted')
            /\ \A id \in DOMAIN pendingMessages[c] :
                 RetryDropped(c, id, rolls[id])
                   => /\ pendingMessages'[c][id].message = pendingMessages[c][id].message
                      /\ pendingMessages'[c][id].acknowledged =
                           pendingMessages[c][id].acknowledged
                      /\ pendingMessages'[c][id].lastAttempt = now
                      /\ txCount'[id] = txCount[id]
                      /\ \A k \in 1..Len(posted') : posted'[k].id # id
                      /\ (\A j \in DOMAIN pendingMessages[c] :
                            ~Retransmits(c, j, rolls[j]))
                           => metrics' = metrics /\ channel' = channel]_vars

\* the one due tick of an open entry was dropped: the entry still has
\* attempts = 0 and no retry was counted, and its lastAttempt moved on
C25_Witness ==
  \E c \in Clients : \E id \in DOMAIN pendingMessages[c] :
    /\ dueTicks[id] = 1
    /\ ~pendingMessages[c][id].acknowledged
    /\ pendingMessages[c][id].message.attempts = 0
    /\ pendingMessages[c][id].lastAttempt >= ACK_TIMEOUT_MS
    /\ pendingMessages[c][id].lastAttempt = now
    /\ metrics[c].retries = 0


\* C26: when a listener handles a received ACK whose target pending entry
\* exists and is not yet acknowledged, the entry is marked acknowledged,
\* acksReceived rises by one and lastLatency is set; when the target is
\* absent or already acknowledged, the pending ledger, acksReceived and
\* lastLatency stay as they are.
C26_AckCountsOncePerEntry ==
  [][\A c \in Clients :
       (/\ onmessage(c)
        /\ Head(channel[c]).msg.type = "ACKNOWLEDGEMENT")
         => LET originalId == Head(channel[c]).msg.payload.messageId
                open_ == /\ originalId \in DOMAIN pendingMessages[c]
                         /\ ~pendingMessages[c][originalId].acknowledged
            IN IF open_ /\ Matches(c, Head(channel[c]).msg)
               THEN /\ pendingMessages'[c][originalId].acknowledged
                    /\ metrics'[c].acksReceived = metrics[c].acksReceived + 1
                    /\ metrics'[c].lastLatency =
                         now - pendingMessages[c][originalId].lastAttempt
               ELSE /\ pendingMessages'[c] = pendingMessages[c]
                    /\ metrics'[c].acksReceived = metrics[c].acksReceived
                    /\ metrics'[c].lastLatency = metrics[c].lastLatency]_vars


\* C27: a cleanup tick keeps every applied id whose envelope is younger than
\* the retention window of the applied ids and removes every older one.  The
\* envelopes of SpecCleanup are all created at clock 0, so the age of an
\* envelope is the clock value.
C27_AppliedIdsKeptByAge ==
  [][\A c \in Clients :
       cleanupAcknowledgedMessages(c)
         => \A id \in appliedMessageIds[c] :
              /\ now < CLEANUP_DELAY_MS * 1000 => id \in appliedMessageIds'[c]
              /\ now > CLEANUP_DELAY_MS * 1000 => id \notin appliedMessageIds'[c]]_vars


\* C28: a cleanup tick leaves every unacknowledged pending entry in the
\* ledger as it is, and removes an acknowledged entry if and only if at
\* least CLEANUP_DELAY_MS (5000 ms) have passed since its lastAttempt; an
\* entry it keeps is unchanged.
C28_PendingCleanupByAckAndAge ==
  [][\A c \in Clients :
       cleanupAcknowledgedMessages(c)
         => \A id \in DOMAIN pendingMessages[c] :
              LET pending == pendingMessages[c][id]
                  removed == id \notin DOMAIN pendingMessages'[c]
              IN /\ ~pending.acknowledged => ~removed
                 /\ pending.acknowledged
                      => (removed <=> now - pending.lastAttempt >= CLEANUP_DELAY_MS)
                 /\ ~removed => pendingMessages'[c][id] = pending]_vars

\* a cleanup tick of the origin ran when its entry, acknowledged by a peer,
\* was exactly the grace window old, and the ledger no longer holds it
C28_Witness ==
  /\ nextId > 1
  /\ ackedBy[1] # {}
  /\ cleanedAt[Origin] = CLEANUP_DELAY_MS
  /\ now = CLEANUP_DELAY_MS
  /\ 1 \notin DOMAIN pendingMessages[Origin]


\* C29: each envelope delivered to a context is passed to
\* handleReliableMessage once there.  In Spec every envelope of setNodeState
\* is transmitted once, so as long as no other script has posted, a foreign
\* NODE_STATE_CHANGE that reaches a listener is new to the context and the
\* call posts one ACK, and a sender has counted at most one received ACK per
\* envelope it sent and peer.
C29_HandlerOncePerDelivery ==
  /\ [](injected = 0
         => \A c \in open :
              metrics[c].acksReceived
                <= Cardinality({i \in 1..Len(sent) : sent[i].senderId = c})
                     * (Cardinality(open) - 1))
  /\ [][\A c \in Clients :
          (/\ onmessage(c)
           /\ injected = 0
           /\ Incoming(c).type = "NODE_STATE_CHANGE"
           /\ Incoming(c).senderId # c)
            => /\ Incoming(c).id \notin appliedMessageIds[c]
               /\ Len(posted') = 1]_vars


\* C30: an id for which acknowledge has returned true is never rebroadcast
\* by the relay retry loop afterwards.  An id of relayDelivered is one
\* acknowledge has returned true for: no run of the retry loop selects it.
C30_AcknowledgedNeverRebroadcast ==
  [][relayRetryLoop
       => \A id \in DOMAIN relayDelivered :
            id \notin getPendingForRetry(ACK_TIMEOUT_MS)]_vars


\* C31: after the relay admitted a message:send event, the entry stored
\* under the envelope's id is in the pending map with acknowledged = false,
\* whatever acknowledged value the data carried, and the envelope was
\* broadcast to every connected socket but the sender's.
C31_AdmittedIsPendingUnacknowledged ==
  [][\A k \in RelayKeys :
       \A data \in {Envelope(k, 0, relayNow),
                    Envelope(k, 0, relayNow) @@ [acknowledged |-> TRUE]} :
         (messageSend(Owner(k), data) /\ checkRateLimit(Owner(k)))
           => /\ data.id \in DOMAIN relayPending'
              /\ ~relayPending'[data.id].acknowledged
              /\ {e.to : e \in {f \in relayOut'.events : f.event = "message:receive"}}
                   = clients \ {Owner(k)}]_vars


\* C32 as stated: a listener call on a foreign envelope of an unrecognised
\* type returns false, leaves nodes, appliedMessageIds and the pending
\* ledger of the context unchanged and posts no ACK.
C32_UnknownTypeIgnored ==
  [][\A c \in Clients :
       (/\ onmessage(c)
        /\ Incoming(c).senderId # c
        /\ Incoming(c).type \notin {"NODE_STATE_CHANGE", "STATE_SYNC", "ACKNOWLEDGEMENT"})
         => /\ ~rx'.ret
            /\ nodes'[c] = nodes[c]
            /\ appliedMessageIds'[c] = appliedMessageIds[c]
            /\ pendingMessages'[c] = pendingMessages[c]
            /\ posted' = << >>]_vars

\* C32: a listener call on a foreign envelope of an unrecognised type whose
\* id is not in the applied-id set of the context returns false, leaves
\* nodes, appliedMessageIds and the pending ledger unchanged and posts no
\* ACK.
C32_UnknownNewEnvelopeIgnored ==
  [][\A c \in Clients :
       (/\ onmessage(c)
        /\ Incoming(c).senderId # c
        /\ Incoming(c).id \notin appliedMessageIds[c]
        /\ Incoming(c).type \notin {"NODE_STATE_CHANGE", "STATE_SYNC", "ACKNOWLEDGEMENT"})
         => /\ ~rx'.ret
            /\ nodes'[c] = nodes[c]
            /\ appliedMessageIds'[c] = appliedMessageIds[c]
            /\ pendingMessages'[c] = pendingMessages[c]
            /\ posted' = << >>]_vars

\* a listener was just passed a foreign envelope of an unrecognised type and
\* of an id new to the context, and returned false
C32_Witness ==
  /\ rx.to \in Clients
  /\ rx.msg.type = "PING"
  /\ rx.msg.senderId # rx.to
  /\ ~rx.known
  /\ ~rx.ret
  /\ posted = << >>


\* C33: the messagesSent metric of a context is the number of setNodeState
\* calls it made: a call raises it by one whether the chaos roll dropped,
\* delayed or sent the envelope, and neither a retry tick nor the timer of
\* a delayed send changes it.
C33_MessagesSentCountsCalls ==
  /\ [](\A c \in Clients :
         metrics[c].messagesSent =
           Cardinality({i \in 1..Len(sent) : sent[i].senderId = c}))
  /\ [][/\ \A c \in Clients : \A n \in NodeIds : \A st \in NodeStates :
            \A roll \in Rolls : \A roll2 \in Rolls :
              setNodeState(c, n, st, roll, roll2)
                => metrics'[c].messagesSent = metrics[c].messagesSent + 1
        /\ \A c \in Clients :
             (RetryTick(c) \/ DelayedSendStep)
               => metrics'[c].messagesSent = metrics[c].messagesSent]_vars

\* the chaos roll dropped the first transmission of the origin's envelope
\* and retry ticks transmitted it since: every transmission was a retry,
\* and messagesSent is 1
C33_Witness ==
  /\ nextId = 2
  /\ metrics[Origin].messagesSent = 1
  /\ metrics[Origin].retries >= 1
  /\ txCount[1] = metrics[Origin].retries


\* C36: with a latency range configured, a retry tick posts no envelope at
\* once: a retransmission the chaos roll did not drop waits on a timer,
\* as a first transmission does.
C36_RetransmissionIsDelayed ==
  [][\A c \in Clients :
       (RetryTick(c) /\ LatencyConfigured(c)) => posted' = << >>]_vars


\* C37: the acknowledged flag of a pending entry, once true, stays true as
\* long as the entry exists; a retry tick leaves an acknowledged entry as
\* it is (attempts and lastAttempt included) and does not transmit its
\* envelope.
C37_AcknowledgedIsFinal ==
  [][\A c \in Clients : \A id \in DOMAIN pendingMessages[c] :
       pendingMessages[c][id].acknowledged
         => /\ id \in DOMAIN pendingMessages'[c]
                 => pendingMessages'[c][id].acknowledged
            /\ RetryTick(c)
                 => /\ id \in DOMAIN pendingMessages'[c]
                    /\ pendingMessages'[c][id] = pendingMessages[c][id]
                    /\ txCount'[id] = txCount[id]
                    /\ \A k \in 1..Len(posted') : posted'[k].id # id]_vars

\* a retry tick has just retransmitted the origin's second envelope and
\* nothing else, while the entry of the first, acknowledged by a peer at
\* clock 0, is timed out and still as it was
C37_Witness ==
  /\ 1 \in DOMAIN pendingMessages[Origin]
  /\ pendingMessages[Origin][1].acknowledged
  /\ ackedBy[1] # {}
  /\ pendingMessages[Origin][1].message.attempts = 0
  /\ pendingMessages[Origin][1].lastAttempt = 0
  /\ now >= ACK_TIMEOUT_MS
  /\ posted # << >>
  /\ \A k \in 1..Len(posted) : posted[k].id = 2 /\ posted[k].attempts >= 1


\* C38: in every state of the relay's MessageStore no id is in both the
\* pending map and the delivered map, and every entry of the delivered map
\* has acknowledged = true.
C38_PendingAndDeliveredDisjoint ==
  /\ DOMAIN relayPending \cap DOMAIN relayDelivered = {}
  /\ \A id \in DOMAIN relayDelivered : relayDelivered[id].acknowledged


\* C39: in every state of a context acksReceived <= messagesSent; stated
\* for the runs in which only the contexts themselves have posted.
C39_AcksAtMostSent ==
  injected = 0
    => \A c \in Clients : metrics[c].acksReceived <= metrics[c].messagesSent



\* C34: in every state a context has at most one active retry interval and
\* at most one active cleanup interval, however often rehydration ran; the
\* two are active together or not at all, and after beforeunload none is
\* active: from then on no cleanup tick of the context runs, no retry tick
\* counts a timed-out entry, and no pending entry is resent or removed.
C34_OneTimerPairPerContext ==
  /\ [](\A c \in Clients :
          /\ Cardinality({t \in intervals[c] : t.fn = "retryPendingMessages"}) <= 1
          /\ Cardinality({t \in intervals[c] : t.fn = "cleanupAcknowledgedMessages"}) <= 1
          /\ Cardinality(intervals[c]) \in {0, 2}
          /\ c \in tornDown => intervals[c] = {})
  /\ [][\A c \in tornDown :
          /\ cleanedAt'[c] = cleanedAt[c]
          /\ metrics'[c].retries = metrics[c].retries
          /\ \A id \in DOMAIN pendingMessages[c] :
               /\ dueTicks'[id] = dueTicks[id]
               /\ id \in DOMAIN pendingMessages'[c]
               /\ pendingMessages'[c][id].lastAttempt = pendingMessages[c][id].lastAttempt]_vars

\* the origin rehydrated twice after loading and then dispatched
\* beforeunload: it has no active interval although one of its entries has
\* timed out unacknowledged
C34_Witness ==
  /\ _retryIntervalId[Origin] = 5
  /\ _cleanupIntervalId[Origin] = 6
  /\ Origin \in tornDown
  /\ intervals[Origin] = {}
  /\ \E id \in DOMAIN pendingMessages[Origin] : Due(Origin, id)


\* C35: a context that has dispatched beforeunload handles no envelope
\* delivered to it afterwards: the delivery changes none of its nodes, adds
\* no id to its appliedMessageIds and posts no ACK.
C35_TornDownContextHandlesNothing ==
  [][\A c \in tornDown :
       onmessage(c)
         => /\ nodes'[c] = nodes[c]
            /\ appliedMessageIds'[c] = appliedMessageIds[c]
            /\ posted' = << >>]_vars


\* C40: whatever calls of initWebSocket, closeWebSocket and setTransportType
\* and whatever connect and disconnect events came before, a send through
\* sendViaTransport or sendAck goes to the channel that getTransportType()
\* names at that moment.
C40_TransportTypeNamesChannel ==
  [][(/\ Len(routes') > Len(routes)
      /\ routes'[Len(routes')] \in {"websocket", "broadcastchannel"})
       => routes'[Len(routes')] = _transportType]_vars
====
